---- MODULE Spec2Model ----
(***************************************************************************)
(* A model of golem, an HTTP reverse proxy with three backend selectors    *)
(* (round-robin, least-connections, weighted response time), shared        *)
(* Backend records, a health prober and the per-request forwarding         *)
(* handler.  Backends are list positions 0..nBackends-1 (Go slice          *)
(* indices); a process is one goroutine calling NextBackend or ServeHTTP.  *)
(***************************************************************************)
EXTENDS Integers, Sequences, FiniteSets, TLC

\* ---------------------------------------------------------------- bounds
\* Largest configured backend list in the concurrent specifications.
MaxBackends == 2
\* Largest configured backend list in the sequential round-robin runs.
SeqMaxBackends == 3
\* New calls start only while the round-robin counter is below this value.
MaxIndex == 3
\* The random source has RngMod states; a draw is state / RngMod in [0, 1).
RngMod == 3
\* Calls of the sequential runs start while the counter is below this.
SeqMaxIndex == 6
\* Largest in-flight count driven through the Backend API directly.
MaxConn == 3
\* Lines an origin streams in one response.
MaxLines == 1
\* Largest configured backend list behind the forwarding handler.
MaxProxyBackends == 1

\* ------------------------------------------------------- program constants
\* The round-robin counter is a uint64 (roundrobin.go:10).  It is kept here
\* with CounterBits bits, so that int(counter) is negative from
\* 2^(CounterBits-1) on, as int(uint64) is from 2^63 on.
CounterBits == 6
\* math.MaxInt, the initial minConnections of the least-connections scan.
MathMaxInt == 2147483647
\* Duration units (microseconds) per millisecond, for Duration.Milliseconds().
UnitsPerMs == 1000

NoBackend == -1
\* The prober's interval, NewHealthChecker(backends, 5*time.Second), and the
\* probe client's Timeout, 2 * time.Second, in seconds.
ProbeIntervalSec == 5
ProbeTimeoutSec == 2
\* The least status code that checkBackend takes for a failure.
FailureStatus == 400

\* Two goroutines run concurrently: the smallest number that interleaves.
Procs == {1, 2}

Methods == {"roundrobin", "leastconn", "weighted"}

VARIABLES
  nBackends,      \* len(backends) of the selector / prober
  method,         \* the method the balancer was built with
  healthy,        \* Backend.healthy, per backend
  connections,    \* Backend.connections, per backend
  index,          \* RoundRobinBalancer.index
  responseTimes,  \* WeightedResponseTimeBalancer.responseTimes
  rng,            \* state of WeightedResponseTimeBalancer.rng
  now,            \* wall clock, in half-lives of the decay (24 h)
  invalidURL,     \* backends whose URL url.Parse rejects
  proc,           \* per goroutine: position and locals
  during,         \* per goroutine: health seen during its current call
  floor,          \* per goroutine: maxReturned when its current call began
  startIndex,     \* per goroutine: the counter when its current call began
  observed,       \* log of the counter values returned by AddUint64
  maxReturned,    \* largest counter value a returned selection was computed from
  history,        \* results of the calls since the last health transition
  calls,          \* number of NextBackend calls returned since construction
  lastOp,         \* the last Backend API call and the count it found
  scanLog,        \* per goroutine: what its least-connections scan has read
  hc,             \* HealthChecker: loop, ticker, Stop call, probes in flight
  origin,         \* per backend: how its /health endpoint answers now
  probeLog,       \* the last probe that completed; time without agreement
  twin,           \* two weighted selectors over the same backends
  trackLog,       \* the last call made on the response-time tracker
  boot,           \* main(): the file, the flags, the config, the outcome
  stream,         \* a streamed exchange: origin body, client side, events
  request,        \* an inbound request and the outbound request built from it
  rw              \* w.mutex, the goroutines using the trackers, the samples

vars == <<nBackends, method, healthy, connections, index, responseTimes, rng,
          now, invalidURL, proc, during, floor, startIndex, observed, maxReturned,
          history, calls, lastOp, scanLog, hc, origin, probeLog,
          twin, trackLog, boot, stream,
                 request, rw>>

Backends == 0..(nBackends - 1)

\* ------------------------------------------------------------ arithmetic
RECURSIVE Pow2(_)
Pow2(k) == IF k = 0 THEN 1 ELSE 2 * Pow2(k - 1)

CounterMod == Pow2(CounterBits)

Max(a, b) == IF a >= b THEN a ELSE b

\* Go's % truncates toward zero: the result takes the sign of the dividend.
GoRem(a, m) == IF a >= 0 THEN a % m ELSE 0 - ((0 - a) % m)

\* int(x) of an unsigned counter value: two's complement reinterpretation.
ToInt(u) == IF u >= Pow2(CounterBits - 1) THEN u - CounterMod ELSE u

\* atomic.AddUint64(&r.index, 1): the new value, wrapping at the width.
AddUint64Mod(v) == (v + 1) % Max(nBackends, 1)
AddUint64Twice(v) == (v + 2) % CounterMod
AddUint64(v) == (v + 1) % CounterMod

\* idx := int(counter) % n
IdxOfOld(counter, len) == GoRem(ToInt(counter) - 1, len)
IdxOf(counter, len) == GoRem(ToInt(counter), len)

RECURSIVE SumSeq(_)
SumSeq(s) == IF s = <<>> THEN 0 ELSE Head(s) + SumSeq(Tail(s))

\* ---------------------------------------------------------- Backend record
NewBackendHealthy == TRUE

IsHealthyAlways(b) == TRUE
IsHealthy(b) == healthy[b]

SetHealthDropped(h, b, v) == h
SetHealth(h, b, v) == [h EXCEPT ![b] = v]

AddConnections(c, b) == [c EXCEPT ![b] = @ + 1]

RemoveConnectionsUnguarded(c, b) == [c EXCEPT ![b] = @ - 1]
RemoveConnectionsOffByOne(c, b) == [c EXCEPT ![b] = IF @ > 1 THEN @ - 1 ELSE @]
RemoveConnections(c, b) == [c EXCEPT ![b] = IF @ > 0 THEN @ - 1 ELSE @]

GetConnections(b) == connections[b]

\* ------------------------------------------------- response-time tracker
NewTracker == [totalTime |-> 0, requestCount |-> 0, lastUpdate |-> now]

Milliseconds(d) == d \div UnitsPerMs

\* exp(-age / halfLife * ln 2) = 2^(-age), the clock counting half-lives.
\* Returned as the divisor 2^age.
calculateDecayDivisor(lastUpdate, t) == Pow2(Max(t - lastUpdate, 0))

\* Weights are kept in thousandths: 10.0 is 10000, the floor 0.1 is 100.
\* t is the reading of time.Now() inside calculateDecayFactor.
calculateWeightAtNoFloor(tracker, t) ==
  IF tracker.requestCount = 0 THEN 10000
  ELSE LET avgResponseTime == tracker.totalTime \div tracker.requestCount
           avgMs == Milliseconds(avgResponseTime)
       IN (1000000 \div (avgMs + 1))
            \div calculateDecayDivisor(tracker.lastUpdate, t)
calculateWeightAtNotInverse(tracker, t) ==
  IF tracker.requestCount = 0 THEN 10000
  ELSE LET avgResponseTime == tracker.totalTime \div tracker.requestCount
           avgMs == Milliseconds(avgResponseTime)
           weight == (1000 * (avgMs + 1))
                       \div calculateDecayDivisor(tracker.lastUpdate, t)
       IN Max(weight, 100)
calculateWeightAt(tracker, t) ==
  IF tracker.requestCount = 0 THEN 10000
  ELSE LET avgResponseTime == tracker.totalTime \div tracker.requestCount
           avgMs == Milliseconds(avgResponseTime)
           weight == (1000000 \div (avgMs + 1))
                       \div calculateDecayDivisor(tracker.lastUpdate, t)
       IN Max(weight, 100)

calculateWeight(b) == calculateWeightAt(responseTimes[b], now)

\* rng.Float64(): advances the source; the draw is the new state / RngMod.
RngNext(s) == (s + 1) % RngMod

\* selectByWeight(backends, weights) with the draw r / m in [0, 1):
\* random = draw * totalWeight; the first i with random <= cumulative.
selectByWeightOn(bs, weights, r, m) ==
  LET totalWeight == SumSeq(weights)
      Cum(i) == SumSeq(SubSeq(weights, 1, i))
      hits == {i \in 1..Len(weights) : r * totalWeight <= Cum(i) * m}
  IN IF totalWeight = 0 THEN bs[1]
     ELSE IF hits # {} THEN bs[CHOOSE i \in hits : \A j \in hits : i <= j]
     ELSE bs[Len(bs)]

\* Values of rng.Float64() taken finely enough to tell the narrowest weight
\* range, the floor, from its neighbours: the draws r / DrawGrid.
DrawGrid == 10000

\* The draw comes from the random source, which has RngMod states.
selectByWeight(bs, weights, r) == selectByWeightOn(bs, weights, r, RngMod)

\* ------------------------------------------------------- process records
IdleProc ==
  [pc |-> "idle", entry |-> "none", i |-> 0, val |-> 0, idx |-> NoBackend,
   sel |-> NoBackend, minConn |-> 0, hb |-> <<>>, wts |-> <<>>,
   result |-> NoBackend, err |-> "nil",
   backend |-> NoBackend, connectionRemoved |-> FALSE, status |-> 0,
   writes |-> 0, lines |-> 0, adds |-> 0, removes |-> 0, exit |-> "none",
   body |-> "", dials |-> 0, resp |-> 0]

IdleDuring == [seenHealthy |-> {}, stable |-> TRUE]

IdleScan == [reads |-> <<>>, leastAt |-> {}]

\* NewHealthChecker: the loop is not started, Stop has not been called, no
\* probe is in flight.
IdleHC ==
  [loop |-> "off", tickIn |-> 0, stop |-> "none",
   probes |-> [b \in Backends |-> {}]]

Selectors == {1, 2}
NoSeed == -1

\* A selector of its own: its random source, the clock reading of its last
\* call, the seed SetSeed gave it, and the calls it has answered.
IdleTwin ==
  [w \in Selectors |-> [rng |-> 0, now |-> 0, seed |-> NoSeed, calls |-> <<>>]]

\* No call has been made on the tracker.
IdleTrackLog ==
  [op |-> "none", b |-> NoBackend, d |-> 0, avg |-> 0]

\* main() has not run.
IdleBoot == [pc |-> "off"]

\* No exchange is being streamed.
IdleStream ==
  [ct |-> <<>>, flusher |-> FALSE, body |-> <<>>, read |-> 0,
   path |-> "none", events |-> <<>>, client |-> <<>>]

\* A url.URL: the fields this program reads or writes.  Paths, queries and
\* fragments are sequences of characters.
NoURL ==
  [scheme |-> "", host |-> "", path |-> <<>>, rawQuery |-> <<>>,
   fragment |-> <<>>]

\* An http.Request: Header is a reference into the heap of header maps,
\* 0 for nil.
NoRequest == [method |-> "", url |-> NoURL, header |-> 0]

\* No request is being forwarded.
IdleRequest ==
  [pc |-> "none", targetURL |-> NoURL, r |-> NoRequest,
   proxyReq |-> NoRequest, heap |-> <<>>, received |-> <<>>,
   mutated |-> FALSE]

\* What a goroutine read of a tracker: the backend, requestCount, totalTime.
NoObservation == [b |-> NoBackend, count |-> 0, total |-> 0]

\* A goroutine that is in no call on the weighted balancer.
IdleG ==
  [pc |-> "idle", op |-> "none", b |-> NoBackend, d |-> 0, local |-> 0,
   todo |-> <<>>, seen |-> NoObservation]

\* w.mutex is unlocked (writer 0, no readers), no goroutine is in a call and
\* no response time has been recorded.
IdleRW ==
  [writer |-> 0, readers |-> {}, g |-> [p \in Procs |-> IdleG],
   samples |-> [b \in Backends |-> <<>>]]

IdleProbeLog ==
  [last |-> [b |-> NoBackend, err |-> FALSE, status |-> 0, seq |-> 0,
             stopped |-> FALSE],
   since |-> [b \in Backends |-> 0]]

InCall(p) == proc[p].pc \in {"enter", "rr_add", "rr_check", "lc_scan",
                             "lc_ret", "w_scan", "w_select"}

\* A selector call returns (b, e) to its caller: a bare NextBackend call ends
\* in "returned", ServeHTTP continues at its nil check.
Return(p, b, e) ==
  proc' = [proc EXCEPT ![p] =
             [@ EXCEPT !.pc = IF proc[p].entry = "ServeHTTP"
                                 THEN "serve_selected" ELSE "returned",
                       !.result = b, !.err = e, !.val = 0,
                       !.i = 0, !.idx = NoBackend, !.sel = NoBackend,
                       !.minConn = 0, !.hb = <<>>, !.wts = <<>>]]

\* --------------------------------------------------------------- callers
\* A goroutine invokes Balancer.NextBackend() directly.
CallNextBackend(p) ==
  /\ proc[p].pc \in {"idle", "returned"}
  /\ index < MaxIndex
  /\ proc' = [proc EXCEPT ![p] = [IdleProc EXCEPT !.pc = "enter",
                                                  !.entry = "NextBackend"]]
  /\ UNCHANGED <<nBackends, invalidURL, hc, origin, method, healthy, connections, index,
                 responseTimes, rng, now>>

\* ----------------------------------------------------------- round-robin
\* n := len(r.backends); if n == 0 { return nil, "no backends provided" }
RRNextBackendEager(p) ==
  /\ proc[p].pc = "enter"
  /\ method = "roundrobin"
  /\ index' = AddUint64(index)
  /\ IF nBackends = 0
       THEN Return(p, NoBackend, "ErrNoBackends")
       ELSE proc' = [proc EXCEPT ![p].pc = "rr_add", ![p].i = 0]
  /\ UNCHANGED <<nBackends, invalidURL, hc, origin, method, healthy, connections,
                 responseTimes, rng, now>>
RRNextBackend(p) ==
  /\ proc[p].pc = "enter"
  /\ method = "roundrobin"
  /\ IF nBackends = 0
       THEN Return(p, NoBackend, "ErrNoBackends")
       ELSE proc' = [proc EXCEPT ![p].pc = "rr_add", ![p].i = 0]
  /\ UNCHANGED <<nBackends, invalidURL, hc, origin, method, healthy, connections, index,
                 responseTimes, rng, now>>

\* idx := int(atomic.AddUint64(&r.index, 1)) % n; next := r.backends[idx]
\* A negative idx makes the slice access panic.
RRAdd(p) ==
  /\ proc[p].pc = "rr_add"
  /\ index' = AddUint64(index)
  /\ LET idx == IdxOf(index', nBackends) IN
       proc' = [proc EXCEPT ![p].val = index', ![p].idx = idx,
                            ![p].pc = IF idx \in Backends THEN "rr_check"
                                      ELSE "panic"]
  /\ UNCHANGED <<nBackends, invalidURL, hc, origin, method, healthy, connections,
                 responseTimes, rng, now>>

\* if next.IsHealthy() { return next, nil }; after n probes the loop ends
\* with "no healthy backends available".
RRCheck(p) ==
  /\ proc[p].pc = "rr_check"
  /\ IF IsHealthy(proc[p].idx)
       THEN Return(p, proc[p].idx, "nil")
       ELSE IF proc[p].i + 1 < nBackends
              THEN proc' = [proc EXCEPT ![p].pc = "rr_add", ![p].i = @ + 1]
              ELSE Return(p, NoBackend, "ErrNoneHealthy")
  /\ UNCHANGED <<nBackends, invalidURL, hc, origin, method, healthy, connections, index,
                 responseTimes, rng, now>>

\* ----------------------------------------------------- least-connections
\* l.mutex.RLock(); if len(l.backends) == 0 { return nil, error }
LCNextBackend(p) ==
  /\ proc[p].pc = "enter"
  /\ method = "leastconn"
  /\ IF nBackends = 0
       THEN Return(p, NoBackend, "ErrNoBackends")
       ELSE proc' = [proc EXCEPT ![p].pc = "lc_scan", ![p].i = 0,
                                 ![p].sel = NoBackend,
                                 ![p].minConn = MathMaxInt]
  /\ UNCHANGED <<nBackends, invalidURL, hc, origin, method, healthy, connections, index,
                 responseTimes, rng, now>>

\* One iteration of the scan, under b.mu.RLock: skip an unhealthy backend,
\* keep the one with strictly fewer connections than the minimum so far.
LCScanKeepsLast(p, b) == IsHealthy(b) /\ GetConnections(b) <= proc[p].minConn
LCScanKeeps(p, b) == IsHealthy(b) /\ GetConnections(b) < proc[p].minConn

LCScan(p) ==
  /\ proc[p].pc = "lc_scan"
  /\ LET b == proc[p].i
         take == LCScanKeeps(p, b)
     IN proc' = [proc EXCEPT
                   ![p].sel = IF take THEN b ELSE @,
                   ![p].minConn = IF take THEN GetConnections(b) ELSE @,
                   ![p].i = @ + 1,
                   ![p].pc = IF b + 1 < nBackends THEN "lc_scan" ELSE "lc_ret"]
  /\ UNCHANGED <<nBackends, invalidURL, hc, origin, method, healthy, connections, index,
                 responseTimes, rng, now>>

\* if selected == nil { return nil, error }; return selected, nil
LCReturnReserves(p) ==
  /\ proc[p].pc = "lc_ret"
  /\ IF proc[p].sel = NoBackend
       THEN /\ Return(p, NoBackend, "ErrNoneHealthy")
            /\ UNCHANGED connections
       ELSE /\ Return(p, proc[p].sel, "nil")
            /\ connections' = AddConnections(connections, proc[p].sel)
  /\ UNCHANGED <<nBackends, invalidURL, hc, origin, method, healthy, index,
                 responseTimes, rng, now>>
LCReturn(p) ==
  /\ proc[p].pc = "lc_ret"
  /\ IF proc[p].sel = NoBackend
       THEN Return(p, NoBackend, "ErrNoneHealthy")
       ELSE Return(p, proc[p].sel, "nil")
  /\ UNCHANGED <<nBackends, invalidURL, hc, origin, method, healthy, connections, index,
                 responseTimes, rng, now>>

\* ------------------------------------------------ weighted response time
\* w.mutex.RLock(); if len(w.backends) == 0 { return nil, error }
WNextBackend(p) ==
  /\ proc[p].pc = "enter"
  /\ method = "weighted"
  /\ IF nBackends = 0
       THEN Return(p, NoBackend, "ErrNoBackends")
       ELSE proc' = [proc EXCEPT ![p].pc = "w_scan", ![p].i = 0,
                                 ![p].hb = <<>>, ![p].wts = <<>>]
  /\ UNCHANGED <<nBackends, invalidURL, hc, origin, method, healthy, connections, index,
                 responseTimes, rng, now>>

\* One iteration of the collection loop: a healthy backend is appended with
\* its weight.  After the loop an empty list returns the none-healthy error.
WCollectRefreshes(p) ==
  /\ proc[p].pc = "w_scan"
  /\ LET b == proc[p].i
         hb == IF IsHealthy(b) THEN Append(proc[p].hb, b) ELSE proc[p].hb
         wts == IF IsHealthy(b) THEN Append(proc[p].wts, calculateWeight(b))
                ELSE proc[p].wts
     IN /\ responseTimes' = [responseTimes EXCEPT ![b].lastUpdate = now + 1]
        /\ IF b + 1 < nBackends
             THEN proc' = [proc EXCEPT ![p].hb = hb, ![p].wts = wts,
                                       ![p].i = @ + 1]
             ELSE IF hb = <<>>
                    THEN Return(p, NoBackend, "ErrNoneHealthy")
                    ELSE proc' = [proc EXCEPT ![p].hb = hb, ![p].wts = wts,
                                              ![p].i = @ + 1,
                                              ![p].pc = "w_select"]
  /\ UNCHANGED <<nBackends, invalidURL, hc, origin, method, healthy,
                 connections, index, rng, now>>
WCollect(p) ==
  /\ proc[p].pc = "w_scan"
  /\ LET b == proc[p].i
         hb == IF IsHealthy(b) THEN Append(proc[p].hb, b) ELSE proc[p].hb
         wts == IF IsHealthy(b) THEN Append(proc[p].wts, calculateWeight(b))
                ELSE proc[p].wts
     IN IF b + 1 < nBackends
          THEN proc' = [proc EXCEPT ![p].hb = hb, ![p].wts = wts,
                                    ![p].i = @ + 1]
          ELSE IF hb = <<>>
                 THEN Return(p, NoBackend, "ErrNoneHealthy")
                 ELSE proc' = [proc EXCEPT ![p].hb = hb, ![p].wts = wts,
                                           ![p].i = @ + 1,
                                           ![p].pc = "w_select"]
  /\ UNCHANGED <<nBackends, invalidURL, hc, origin, method, healthy, connections, index,
                 responseTimes, rng, now>>

\* return w.selectByWeight(healthyBackends, weights), nil
\* The draw is made under rngMutex unless the total weight is zero.
WSelect(p) ==
  /\ proc[p].pc = "w_select"
  /\ LET drawn == SumSeq(proc[p].wts) # 0
         r == RngNext(rng)
     IN /\ rng' = IF drawn THEN r ELSE rng
        /\ Return(p, selectByWeight(proc[p].hb, proc[p].wts, r), "nil")
  /\ UNCHANGED <<nBackends, invalidURL, hc, origin, method, healthy, connections, index,
                 responseTimes, now>>

\* ---------------------------------------------------------- health prober
\* checkBackend(b): b.SetHealth(false) on an error or a status >= 400,
\* b.SetHealth(true) otherwise.  The probe's outcome is the environment's.
checkBackend(b, ok) ==
  /\ b \in Backends
  /\ healthy' = SetHealth(healthy, b, ok)
  /\ UNCHANGED <<nBackends, invalidURL, hc, origin, method, connections, index, responseTimes, rng,
                 now, proc>>

\* ------------------------------------------------------------ observers
\* The history variables below record what the claims speak about; they
\* are written from the step just taken and read by no action.
Completed(p) == proc[p].pc \in {"idle", "returned", "done"}

Begins(p) == Completed(p) /\ proc'[p].pc = "enter"

Returns(p) == InCall(p) /\ proc'[p].pc \in {"returned", "serve_selected"}

Probes(p) == proc[p].pc = "rr_add" /\ proc'[p].pc \in {"rr_check", "panic"}

HealthySet == {b \in Backends : healthy[b]}

\* Which backends were healthy at some instant of the call in progress, and
\* whether every health flag kept its value throughout it.
ObserveHealth ==
  during' = [p \in Procs |->
               IF Begins(p)
                 THEN [seenHealthy |-> HealthySet, stable |-> TRUE]
               ELSE IF InCall(p) /\ healthy' # healthy
                 THEN [seenHealthy |-> during[p].seenHealthy
                                         \cup {b \in Backends : healthy'[b]},
                       stable |-> FALSE]
               ELSE during[p]]

\* The order of the counter values handed out, and what had been returned
\* when each call began.
ObserveOrder ==
  /\ floor' = [p \in Procs |-> IF Begins(p) THEN maxReturned ELSE floor[p]]
  /\ observed' = IF \E p \in Procs : Probes(p)
                   THEN Append(observed,
                               proc'[CHOOSE p \in Procs : Probes(p)].val)
                   ELSE observed
  /\ maxReturned' =
       IF \E p \in Procs : Returns(p) /\ proc'[p].result # NoBackend
         THEN Max(maxReturned,
                  proc[CHOOSE p \in Procs : Returns(p)].val)
         ELSE maxReturned

\* The results of the calls made since the health flags last changed.
ObserveSeq ==
  /\ startIndex' = [p \in Procs |-> IF Begins(p) THEN index ELSE startIndex[p]]
  /\ history' = IF healthy' # healthy THEN <<>>
                ELSE IF \E p \in Procs : Returns(p)
                  THEN Append(history,
                              proc'[CHOOSE p \in Procs : Returns(p)].result)
                ELSE history
  /\ calls' = IF \E p \in Procs : Returns(p) THEN calls + 1 ELSE calls

\* ------------------------------------------------ concurrent selection
\* Goroutines call NextBackend concurrently while probes flip health flags.
\* The trackers stay as NewWeightedResponseTimeBalancer builds them.
InitCommon ==
  /\ method \in Methods
  /\ healthy = [b \in Backends |-> NewBackendHealthy]
  /\ connections = [b \in Backends |-> 0]
  /\ index = 0
  /\ now = 0
  /\ responseTimes = [b \in Backends |-> NewTracker]
  /\ rng \in (IF method = "weighted" THEN 0..(RngMod - 1) ELSE {0})
  /\ invalidURL = {}
  /\ proc = [p \in Procs |-> IdleProc]
  /\ during = [p \in Procs |-> IdleDuring]
  /\ floor = [p \in Procs |-> 0]
  /\ startIndex = [p \in Procs |-> 0]
  /\ observed = <<>>
  /\ maxReturned = 0
  /\ history = <<>>
  /\ calls = 0
  /\ lastOp = [op |-> "none", b |-> NoBackend, before |-> 0]
  /\ scanLog = [p \in Procs |-> IdleScan]
  /\ hc = IdleHC
  /\ origin = [b \in Backends |-> "up"]
  /\ probeLog = IdleProbeLog
  /\ twin = IdleTwin
  /\ trackLog = IdleTrackLog
  /\ boot = IdleBoot
  /\ stream = IdleStream
  /\ request = IdleRequest
  /\ rw = IdleRW

InitSel ==
  /\ nBackends \in 0..MaxBackends
  /\ InitCommon

SelStep(A) ==
  /\ A
  /\ ObserveHealth
  /\ UNCHANGED <<floor, startIndex, observed, maxReturned, history, calls,
                 lastOp,
                 scanLog, probeLog, twin,
                 trackLog, boot, stream,
                 request, rw>>

NextSel ==
  \/ \E p \in Procs : SelStep(CallNextBackend(p))
  \/ \E p \in Procs : SelStep(RRNextBackend(p))
  \/ \E p \in Procs : SelStep(RRAdd(p))
  \/ \E p \in Procs : SelStep(RRCheck(p))
  \/ \E p \in Procs : SelStep(LCNextBackend(p))
  \/ \E p \in Procs : SelStep(LCScan(p))
  \/ \E p \in Procs : SelStep(LCReturn(p))
  \/ \E p \in Procs : SelStep(WNextBackend(p))
  \/ \E p \in Procs : SelStep(WCollect(p))
  \/ \E p \in Procs : SelStep(WSelect(p))
  \/ \E b \in Backends, ok \in BOOLEAN : SelStep(checkBackend(b, ok))

SpecSel == InitSel /\ [][NextSel]_vars

\* C4: every backend a selector returns was healthy at some instant between
\* the start and the return of that NextBackend call.
C4_ReturnedWasHealthy ==
  \A p \in Procs :
    (proc[p].pc = "returned" /\ proc[p].result # NoBackend)
      => proc[p].result \in during[p].seenHealthy

\* A call returned a backend whose health flag was cleared after the
\* selector read it, before the call was over.
C4_Witness ==
  \E p \in Procs :
    /\ proc[p].pc = "returned"
    /\ proc[p].result # NoBackend
    /\ ~during[p].stable
    /\ ~healthy[proc[p].result]

\* C5: on a non-empty backend list, with the health flags unchanged during
\* the call, NextBackend returns the none-healthy error if and only if no
\* backend reports healthy.
C5_NoneHealthyIffNoHealthy ==
  \A p \in Procs :
    (proc[p].pc = "returned" /\ nBackends > 0 /\ during[p].stable)
      => (proc[p].err = "ErrNoneHealthy" <=> during[p].seenHealthy = {})

\* C6: NextBackend returns the no-backends error, and no backend, if and only
\* if the backend list is empty; on an empty list no step changes the
\* round-robin counter, the random source or the trackers.
C6_NoBackendsIffEmpty ==
  /\ [](\A p \in Procs :
          proc[p].pc = "returned"
            => /\ proc[p].err = "ErrNoBackends" <=> nBackends = 0
               /\ proc[p].err = "ErrNoBackends" => proc[p].result = NoBackend)
  /\ [][nBackends = 0 => /\ index' = index
                         /\ rng' = rng
                         /\ responseTimes' = responseTimes]_vars

C6_Witness ==
  \E p \in Procs :
    /\ proc[p].pc = "returned"
    /\ proc[p].err = "ErrNoBackends"
    /\ nBackends = 0

\* --------------------------------------------- order of the shared counter
\* Goroutines call the round-robin selector concurrently while probes flip
\* health flags; the counter values handed out are logged.
InitLin ==
  /\ nBackends \in 1..MaxBackends
  /\ InitCommon
  /\ method = "roundrobin"

LinStep(A) ==
  /\ A
  /\ ObserveOrder
  /\ UNCHANGED <<during, startIndex, history, calls, lastOp,
                 scanLog, probeLog, twin,
                 trackLog, boot, stream,
                 request, rw>>

NextLin ==
  \/ \E p \in Procs : LinStep(CallNextBackend(p))
  \/ \E p \in Procs : LinStep(RRNextBackend(p))
  \/ \E p \in Procs : LinStep(RRAdd(p))
  \/ \E p \in Procs : LinStep(RRCheck(p))
  \/ \E b \in Backends, ok \in BOOLEAN : LinStep(checkBackend(b, ok))

SpecLin == InitLin /\ [][NextLin]_vars

\* C10: no two probes observe the same counter value, and every counter
\* value a selection uses is greater than the value any selection that
\* returned before it began was computed from.
C10_CounterLinearizable ==
  /\ \A i, j \in 1..Len(observed) : i # j => observed[i] # observed[j]
  /\ \A p \in Procs : proc[p].pc = "rr_check" => proc[p].val > floor[p]

\* A selection probes after another selection has returned, other probes
\* having been made meanwhile by both goroutines.
C10_Witness ==
  \E p \in Procs :
    /\ proc[p].pc = "rr_check"
    /\ floor[p] >= 2
    /\ proc[p].val > floor[p] + 1

\* ------------------------------------------------ sequential round-robin
\* One caller makes NextBackend calls one after another on a round-robin
\* selector; health flags change only between calls.
Caller == CHOOSE p \in Procs : \A q \in Procs : p <= q

InitSeq ==
  /\ nBackends \in 1..SeqMaxBackends
  /\ InitCommon
  /\ method = "roundrobin"

SeqStep(A) ==
  /\ A
  /\ ObserveSeq
  /\ UNCHANGED <<during, floor, observed, maxReturned, lastOp,
                 scanLog, probeLog, twin,
                 trackLog, boot, stream,
                 request, rw>>

\* The caller starts its next call.
SeqCall ==
  /\ index < SeqMaxIndex
  /\ proc[Caller].pc \in {"idle", "returned"}
  /\ proc' = [proc EXCEPT ![Caller] = [IdleProc EXCEPT !.pc = "enter",
                                                       !.entry = "NextBackend"]]
  /\ UNCHANGED <<nBackends, invalidURL, hc, origin, method, healthy, connections, index,
                 responseTimes, rng, now>>

\* backends[b].SetHealth(v) between two calls.
SeqSetHealth(b, v) ==
  /\ ~InCall(Caller)
  /\ b \in Backends
  /\ healthy' = SetHealth(healthy, b, v)
  /\ UNCHANGED <<nBackends, invalidURL, hc, origin, method, connections, index, responseTimes, rng,
                 now, proc>>

NextSeq ==
  \/ SeqStep(SeqCall)
  \/ SeqStep(RRNextBackend(Caller))
  \/ SeqStep(RRAdd(Caller))
  \/ SeqStep(RRCheck(Caller))
  \/ \E b \in Backends, v \in BOOLEAN : SeqStep(SeqSetHealth(b, v))

SpecSeq == InitSeq /\ [][NextSeq]_vars

\* How often backend b occurs in h[from..to].
Occurrences(h, from, to, b) == Cardinality({i \in from..to : h[i] = b})

\* C7: on a freshly constructed selector whose backends have all been healthy
\* at every call, the i-th call returns backends[i mod n].
C7_FreshOrder ==
  (nBackends >= 1 /\ calls = Len(history) /\ HealthySet = Backends)
    => \A i \in 1..Len(history) : history[i] = i % nBackends

\* Two backends A, B, four calls: B, A, B, A.
C7_Witness ==
  /\ nBackends = 2
  /\ calls = 4
  /\ history = <<1, 0, 1, 0>>

\* C8: with k healthy backends and no health transition, any window of m*k
\* consecutive calls selects each healthy backend exactly m times and no
\* unhealthy backend.
C8_WindowFair ==
  LET k == Cardinality(HealthySet) IN
  k >= 1 =>
    \A s \in 1..Len(history), m \in 1..Len(history) :
      s + m * k - 1 <= Len(history)
        => \A b \in Backends :
             Occurrences(history, s, s + m * k - 1, b)
               = IF healthy[b] THEN m ELSE 0

\* Three backends of which two are healthy, a window of two rounds that does
\* not start at the counter's initial position.
C8_Witness ==
  /\ nBackends = 3
  /\ Cardinality(HealthySet) = 2
  /\ Len(history) >= 4
  /\ calls > Len(history)

\* The first healthy backend in cyclic order strictly after position pos, as
\* the number of steps to it.
StepsToHealthy(pos) ==
  CHOOSE d \in 1..nBackends :
    /\ healthy[(pos + d) % nBackends]
    /\ \A e \in 1..(d - 1) : ~healthy[(pos + e) % nBackends]

\* C9: with a healthy backend present, a call returns the first healthy
\* backend in cyclic list order strictly after the position the counter was
\* left at, and advances the counter by the entries skipped plus one.
C9_NextHealthyAfter ==
  (proc[Caller].pc = "returned" /\ history # <<>> /\ HealthySet # {})
    => LET pos == startIndex[Caller] % nBackends
           d == StepsToHealthy(pos)
       IN /\ proc[Caller].result = (pos + d) % nBackends
          /\ index = startIndex[Caller] + d

\* A call that skipped two unhealthy entries.
C9_Witness ==
  /\ proc[Caller].pc = "returned"
  /\ history # <<>>
  /\ proc[Caller].result # NoBackend
  /\ index = startIndex[Caller] + 3

\* ------------------------------------------------------ the Backend record
\* Callers use a Backend's methods directly, in any order; each method runs
\* under the record's mutex.
InitBackend ==
  /\ nBackends \in 1..MaxBackends
  /\ InitCommon

ApiAddConnections(b) ==
  /\ b \in Backends
  /\ connections[b] < MaxConn
  /\ connections' = AddConnections(connections, b)
  /\ lastOp' = [op |-> "AddConnections", b |-> b, before |-> connections[b]]
  /\ UNCHANGED <<nBackends, invalidURL, hc, origin, method, healthy, index, responseTimes, rng, now,
                 proc>>

ApiRemoveConnections(b) ==
  /\ b \in Backends
  /\ connections' = RemoveConnections(connections, b)
  /\ lastOp' = [op |-> "RemoveConnections", b |-> b, before |-> connections[b]]
  /\ UNCHANGED <<nBackends, invalidURL, hc, origin, method, healthy, index, responseTimes, rng, now,
                 proc>>

ApiSetHealth(b, v) ==
  /\ b \in Backends
  /\ healthy' = SetHealth(healthy, b, v)
  /\ lastOp' = [op |-> "SetHealth", b |-> b, before |-> connections[b]]
  /\ UNCHANGED <<nBackends, invalidURL, hc, origin, method, connections, index, responseTimes, rng,
                 now, proc>>

BackendStep(A) ==
  /\ A
  /\ UNCHANGED <<during, floor, startIndex, observed, maxReturned, history,
                 calls,
                 scanLog, probeLog, twin,
                 trackLog, boot, stream,
                 request, rw>>

NextBackendApi ==
  \/ \E b \in Backends : BackendStep(ApiAddConnections(b))
  \/ \E b \in Backends : BackendStep(ApiRemoveConnections(b))
  \/ \E b \in Backends, v \in BOOLEAN : BackendStep(ApiSetHealth(b, v))

SpecBackend == InitBackend /\ [][NextBackendApi]_vars

\* C3: in_flight is never negative; AddConnections raises it by exactly 1,
\* RemoveConnections lowers a positive count by exactly 1 and leaves 0 at 0.
C3_InFlightSaturates ==
  /\ \A b \in Backends : connections[b] >= 0
  /\ lastOp.op = "AddConnections"
       => connections[lastOp.b] = lastOp.before + 1
  /\ lastOp.op = "RemoveConnections"
       => connections[lastOp.b]
            = IF lastOp.before > 0 THEN lastOp.before - 1 ELSE 0

\* RemoveConnections was called on a backend with nothing in flight.
C3_Witness ==
  /\ lastOp.op = "RemoveConnections"
  /\ lastOp.before = 0
  /\ connections[lastOp.b] = 0

\* ------------------------------------------------- the forwarding handler
\* Status codes an origin answers with.
OriginStatuses == {200, 500}

\* removeConnection(): the closure of ServeHTTP that calls RemoveConnections
\* unless connectionRemoved is set.  From the request's record r and the
\* connection counts c it yields both after the call.
removeConnectionUnlatched(r, c) ==
  [r |-> [r EXCEPT !.connectionRemoved = TRUE, !.removes = @ + 1],
   c |-> RemoveConnections(c, r.backend)]
removeConnection(r, c) ==
  IF ~r.connectionRemoved
    THEN [r |-> [r EXCEPT !.connectionRemoved = TRUE, !.removes = @ + 1],
          c |-> RemoveConnections(c, r.backend)]
    ELSE [r |-> r, c |-> c]

\* An inbound request arrives: ServeHTTP calls ps.Balancer.NextBackend().
ServeHTTP(p) ==
  /\ proc[p].pc \in {"idle", "done"}
  /\ index < MaxIndex
  /\ proc' = [proc EXCEPT ![p] = [IdleProc EXCEPT !.pc = "enter",
                                                  !.entry = "ServeHTTP"]]
  /\ UNCHANGED <<nBackends, invalidURL, hc, origin, method, healthy, connections, index,
                 responseTimes, rng, now>>

\* http.Error(w, "No healthy backend available", 503); return
NoBackendResponseAs502(r) ==
  [r EXCEPT !.pc = "done", !.status = 502, !.writes = @ + 1, !.exit = "503",
            !.body = "Backend unavailable"]
NoBackendResponse(r) ==
  [r EXCEPT !.pc = "done", !.status = 503, !.writes = @ + 1, !.exit = "503",
            !.body = "No healthy backend available"]

\* backend == nil: 503.  url.Parse fails: 500.  Otherwise
\* backend.AddConnections(), connectionRemoved := false, defer removeConnection().
ServeSelected(p) ==
  /\ proc[p].pc = "serve_selected"
  /\ LET b == proc[p].result IN
       IF b = NoBackend
         THEN /\ proc' = [proc EXCEPT ![p] = NoBackendResponse(proc[p])]
              /\ UNCHANGED connections
       ELSE IF b \in invalidURL
         THEN /\ proc' = [proc EXCEPT ![p].pc = "done", ![p].status = 500,
                                      ![p].writes = @ + 1,
                                      ![p].exit = "500 url",
                                      ![p].body = "Invalid backend URL",
                                      ![p].result = NoBackend]
              /\ UNCHANGED connections
       ELSE /\ connections' = AddConnections(connections, b)
            /\ proc' = [proc EXCEPT ![p].pc = "serve_build", ![p].backend = b,
                                    ![p].adds = @ + 1,
                                    ![p].connectionRemoved = FALSE]
  /\ UNCHANGED <<nBackends, invalidURL, hc, origin, method, healthy, index,
                 responseTimes, rng, now>>

\* ServeHTTP returns or panics: the deferred removeConnection() runs and the
\* request's locals go out of scope.
RunDeferred(r, c) ==
  LET after == removeConnection(r, c) IN
  [r |-> [after.r EXCEPT !.pc = "done", !.lines = 0, !.result = NoBackend],
   c |-> after.c]

\* http.NewRequest(r.Method, dest.String(), r.Body): on an error 500
\* "Failed to create proxy request" and return.
ServeBuild(p, ok) ==
  /\ proc[p].pc = "serve_build"
  /\ IF ok
       THEN /\ proc' = [proc EXCEPT ![p].pc = "serve_do"]
            /\ UNCHANGED connections
       ELSE LET after == RunDeferred([proc[p] EXCEPT !.status = 500,
                                                     !.writes = @ + 1,
                                                     !.exit = "500 build",
                                                     !.body =
                                          "Failed to create proxy request"],
                                     connections) IN
              /\ connections' = after.c
              /\ proc' = [proc EXCEPT ![p] = after.r]
  /\ UNCHANGED <<nBackends, invalidURL, hc, origin, method, healthy, index,
                 responseTimes, rng, now>>

\* resp, err := client.Do(proxyReq) failed: removeConnection() (line 82).
ServeDoFails(p) ==
  /\ proc[p].pc = "serve_do"
  /\ LET after == removeConnection(proc[p], connections) IN
       /\ connections' = after.c
       /\ proc' = [proc EXCEPT ![p] = [after.r EXCEPT !.pc = "serve_fail",
                                                     !.dials = @ + 1]]
  /\ UNCHANGED <<nBackends, invalidURL, hc, origin, method, healthy, index,
                 responseTimes, rng, now>>

\* http.Error(w, "Backend unavailable", 502); backend.SetHealth(false);
\* return.
ServeFail(p) ==
  /\ proc[p].pc = "serve_fail"
  /\ healthy' = SetHealth(healthy, proc[p].backend, FALSE)
  /\ LET after == RunDeferred([proc[p] EXCEPT !.status = 502,
                                              !.writes = @ + 1,
                                              !.exit = "502",
                                              !.body = "Backend unavailable"],
                              connections) IN
       /\ connections' = after.c
       /\ proc' = [proc EXCEPT ![p] = after.r]
  /\ UNCHANGED <<nBackends, invalidURL, hc, origin, method, index, responseTimes, rng,
                 now>>

\* The step below in a variant that takes a 5xx answer for a backend fault.
ServeDoRespondsFaults5xx(p, st, streaming) ==
  /\ proc[p].pc = "serve_do"
  /\ proc' = [proc EXCEPT ![p].pc = IF streaming THEN "serve_stream"
                                    ELSE "serve_copy",
                          ![p].dials = @ + 1, ![p].resp = st,
                          ![p].status = st, ![p].writes = @ + 1,
                          ![p].body = "origin"]
  /\ healthy' = IF st >= 500 THEN SetHealth(healthy, proc[p].backend, FALSE)
                ELSE healthy
  /\ UNCHANGED <<nBackends, invalidURL, hc, origin, method, connections, index,
                 responseTimes, rng, now>>
\* client.Do returned a response: its headers and status are written; the
\* body goes line by line when the writer flushes and the Content-Type is
\* text/plain, through io.Copy otherwise.
ServeDoResponds(p, st, streaming) ==
  /\ proc[p].pc = "serve_do"
  /\ proc' = [proc EXCEPT ![p].pc = IF streaming THEN "serve_stream"
                                    ELSE "serve_copy",
                          ![p].dials = @ + 1, ![p].resp = st,
                          ![p].status = st, ![p].writes = @ + 1,
                          ![p].body = "origin"]
  /\ UNCHANGED <<nBackends, invalidURL, hc, origin, method, healthy, connections, index,
                 responseTimes, rng, now>>

\* One more line is read from the origin, written to the client and flushed.
ServeStreamLine(p) ==
  /\ proc[p].pc = "serve_stream"
  /\ proc[p].lines < MaxLines
  /\ proc' = [proc EXCEPT ![p].lines = @ + 1]
  /\ UNCHANGED <<nBackends, invalidURL, hc, origin, method, healthy, connections, index,
                 responseTimes, rng, now>>

\* The streaming loop ends and ServeHTTP returns: the origin's body is over
\* ("eof"), the write to the client failed ("write error":
\* removeConnection(), return) or the scanner reports an error ("read
\* error": removeConnection()).
ServeStreamEnds(p, how) ==
  /\ proc[p].pc = "serve_stream"
  /\ LET explicit == IF how = "eof" THEN [r |-> proc[p], c |-> connections]
                     ELSE removeConnection(proc[p], connections)
         after == RunDeferred([explicit.r EXCEPT !.exit = how], explicit.c)
     IN /\ connections' = after.c
        /\ proc' = [proc EXCEPT ![p] = after.r]
  /\ UNCHANGED <<nBackends, invalidURL, hc, origin, method, healthy, index,
                 responseTimes, rng, now>>

\* io.Copy(w, resp.Body); on an error removeConnection(); return.
ServeCopyReportsError(p, ok) ==
  /\ proc[p].pc = "serve_copy"
  /\ LET explicit == IF ok THEN [r |-> proc[p], c |-> connections]
                     ELSE removeConnection([proc[p] EXCEPT !.status = 500,
                                                           !.writes = @ + 1],
                                           connections)
         after == RunDeferred([explicit.r EXCEPT
                                 !.exit = IF ok THEN "copied"
                                          ELSE "copy error"],
                              explicit.c)
     IN /\ connections' = after.c
        /\ proc' = [proc EXCEPT ![p] = after.r]
  /\ UNCHANGED <<nBackends, invalidURL, hc, origin, method, healthy, index,
                 responseTimes, rng, now>>
ServeCopy(p, ok) ==
  /\ proc[p].pc = "serve_copy"
  /\ LET explicit == IF ok THEN [r |-> proc[p], c |-> connections]
                     ELSE removeConnection(proc[p], connections)
         after == RunDeferred([explicit.r EXCEPT
                                 !.exit = IF ok THEN "copied"
                                          ELSE "copy error"],
                              explicit.c)
     IN /\ connections' = after.c
        /\ proc' = [proc EXCEPT ![p] = after.r]
  /\ UNCHANGED <<nBackends, invalidURL, hc, origin, method, healthy, index,
                 responseTimes, rng, now>>

\* A panic anywhere after the defer statement unwinds through the deferred
\* removeConnection().
ServePanics(p) ==
  /\ proc[p].pc \in {"serve_build", "serve_do", "serve_fail", "serve_stream",
                     "serve_copy"}
  /\ LET after == RunDeferred([proc[p] EXCEPT !.exit = "panic"],
                              connections) IN
       /\ connections' = after.c
       /\ proc' = [proc EXCEPT ![p] = after.r]
  /\ UNCHANGED <<nBackends, invalidURL, hc, origin, method, healthy, index,
                 responseTimes, rng, now>>

\* The proxy serves requests on concurrent goroutines while the prober
\* writes health flags.
Init ==
  /\ nBackends \in 0..MaxProxyBackends
  /\ method \in Methods
  /\ healthy = [b \in Backends |-> NewBackendHealthy]
  /\ connections = [b \in Backends |-> 0]
  /\ index = 0
  /\ now = 0
  /\ responseTimes = [b \in Backends |-> NewTracker]
  /\ rng \in (IF method = "weighted" THEN 0..(RngMod - 1) ELSE {0})
  /\ invalidURL \in {{}, {0} \cap Backends}
  /\ proc = [p \in Procs |-> IdleProc]
  /\ during = [p \in Procs |-> IdleDuring]
  /\ floor = [p \in Procs |-> 0]
  /\ startIndex = [p \in Procs |-> 0]
  /\ observed = <<>>
  /\ maxReturned = 0
  /\ history = <<>>
  /\ calls = 0
  /\ lastOp = [op |-> "none", b |-> NoBackend, before |-> 0]
  /\ scanLog = [p \in Procs |-> IdleScan]
  /\ hc = IdleHC
  /\ origin = [b \in Backends |-> "up"]
  /\ probeLog = IdleProbeLog
  /\ twin = IdleTwin
  /\ trackLog = IdleTrackLog
  /\ boot = IdleBoot
  /\ stream = IdleStream
  /\ request = IdleRequest
  /\ rw = IdleRW

Step(A) ==
  /\ A
  /\ UNCHANGED <<during, floor, startIndex, observed, maxReturned, history,
                 calls, lastOp,
                 scanLog, probeLog, twin,
                 trackLog, boot, stream,
                 request, rw>>

Next ==
  \/ \E p \in Procs : Step(ServeHTTP(p))
  \/ \E p \in Procs : Step(RRNextBackend(p))
  \/ \E p \in Procs : Step(RRAdd(p))
  \/ \E p \in Procs : Step(RRCheck(p))
  \/ \E p \in Procs : Step(LCNextBackend(p))
  \/ \E p \in Procs : Step(LCScan(p))
  \/ \E p \in Procs : Step(LCReturn(p))
  \/ \E p \in Procs : Step(WNextBackend(p))
  \/ \E p \in Procs : Step(WCollect(p))
  \/ \E p \in Procs : Step(WSelect(p))
  \/ \E p \in Procs : Step(ServeSelected(p))
  \/ \E p \in Procs, ok \in BOOLEAN : Step(ServeBuild(p, ok))
  \/ \E p \in Procs : Step(ServeDoFails(p))
  \/ \E p \in Procs, st \in OriginStatuses, streaming \in BOOLEAN :
       Step(ServeDoResponds(p, st, streaming))
  \/ \E p \in Procs : Step(ServeFail(p))
  \/ \E p \in Procs : Step(ServeStreamLine(p))
  \/ \E p \in Procs, how \in {"eof", "write error", "read error"} :
       Step(ServeStreamEnds(p, how))
  \/ \E p \in Procs, ok \in BOOLEAN : Step(ServeCopy(p, ok))
  \/ \E p \in Procs : Step(ServePanics(p))
  \/ \E b \in Backends, ok \in BOOLEAN : Step(checkBackend(b, ok))

Spec == Init /\ [][Next]_vars

\* C1: every completed request that reached the reservation step has
\* incremented in_flight of its backend exactly once and decremented it
\* exactly once, whatever its exit path; with no request in progress every
\* in_flight is back at zero.
C1_ReleasedExactlyOnce ==
  /\ \A p \in Procs :
       /\ proc[p].pc \in {"serve_build", "serve_do", "serve_stream",
                           "serve_copy"}
            => proc[p].adds = 1 /\ proc[p].removes = 0
       /\ proc[p].pc = "serve_fail"
            => proc[p].adds = 1 /\ proc[p].removes = 1
       /\ (proc[p].pc = "done" /\ proc[p].backend # NoBackend)
            => proc[p].adds = 1 /\ proc[p].removes = 1
  /\ (\A p \in Procs : proc[p].pc \in {"idle", "done"})
       => \A b \in Backends : connections[b] = 0

\* A request completed on the 502 path, where the explicit removeConnection()
\* and the deferred one both ran, while the other goroutine still holds a
\* connection on the same backend.
C1_Witness ==
  \E p, q \in Procs :
    /\ proc[p].pc = "done"
    /\ proc[p].exit = "502"
    /\ proc[p].removes = 1
    /\ proc[q].pc = "serve_stream"
    /\ proc[q].backend = proc[p].backend
    /\ connections[proc[p].backend] = 1

\* C2: a backend's in_flight is the number of requests that have executed
\* AddConnections on it and not yet their RemoveConnections.
InFlightRequests(b) ==
  {p \in Procs : proc[p].backend = b /\ proc[p].adds > 0 /\ proc[p].removes = 0}

InitLCSeq ==
  /\ nBackends \in 1..SeqMaxBackends
  /\ InitCommon
  /\ method = "leastconn"

\* b.AddConnections() between two calls.
LCSeqAdd(b) ==
  /\ ~InCall(Caller)
  /\ b \in Backends
  /\ connections[b] < MaxConn
  /\ connections' = AddConnections(connections, b)
  /\ UNCHANGED <<nBackends, invalidURL, hc, origin, method, healthy, index,
                 responseTimes, rng, now, proc>>

\* b.RemoveConnections() between two calls.
LCSeqRemove(b) ==
  /\ ~InCall(Caller)
  /\ b \in Backends
  /\ connections' = RemoveConnections(connections, b)
  /\ UNCHANGED <<nBackends, invalidURL, hc, origin, method, healthy, index,
                 responseTimes, rng, now, proc>>

NextLCSeq ==
  \/ Step(CallNextBackend(Caller))
  \/ Step(LCNextBackend(Caller))
  \/ Step(LCScan(Caller))
  \/ Step(LCReturn(Caller))
  \/ \E b \in Backends : Step(LCSeqAdd(b))
  \/ \E b \in Backends : Step(LCSeqRemove(b))
  \/ \E b \in Backends, v \in BOOLEAN : Step(SeqSetHealth(b, v))

SpecLCSeq == InitLCSeq /\ [][NextLCSeq]_vars

\* The healthy backend with the fewest connections, the earliest in list
\* order among those tied; NoBackend when none is healthy.
LeastConnected ==
  IF HealthySet = {} THEN NoBackend
  ELSE CHOOSE b \in HealthySet :
         \A c \in HealthySet :
           \/ connections[b] < connections[c]
           \/ connections[b] = connections[c] /\ b <= c

\* C11: with nothing else running during the call, least-connections
\* NextBackend returns the healthy backend with the smallest in_flight, the
\* lowest list index among ties, ignoring unhealthy backends.
C11_LeastConnectedFirstInOrder ==
  [][(proc[Caller].pc = "lc_ret" /\ proc'[Caller].pc = "returned")
       => proc'[Caller].result = LeastConnected]_vars

\* Backend 0 is unhealthy with the lowest count, backends 1 and 2 are healthy
\* and tied above it: the call returned backend 1.
C11_Witness ==
  /\ nBackends = 3
  /\ proc[Caller].pc = "returned"
  /\ proc[Caller].result = 1
  /\ ~healthy[0] /\ healthy[1] /\ healthy[2]
  /\ connections[0] < connections[1]
  /\ connections[1] = connections[2]

\* --------------------------------- least-connections under the handlers
\* Handlers run ServeHTTP on a least-connections balancer while the prober
\* writes health flags: a scan in one goroutine interleaves with the
\* reservations, releases and health writes of the others.  The origins
\* answer 200 with plain (not event-stream) bodies.
InitLCConc ==
  /\ nBackends \in 1..MaxBackends
  /\ InitCommon
  /\ method = "leastconn"

\* The healthy backends whose count is the least among the healthy ones.
LeastSet(h, c) ==
  {b \in Backends : h[b] /\ \A x \in Backends : h[x] => c[b] <= c[x]}

\* What each scan read (healthy, connections) from each record in list order
\* and which backends were least loaded at some instant of the call; kept
\* until the caller has used the result.
ObserveScan ==
  scanLog' = [p \in Procs |->
    IF proc'[p].pc \notin {"enter", "lc_scan", "lc_ret", "serve_selected"}
      THEN IdleScan
    ELSE IF Begins(p)
      THEN [reads |-> <<>>, leastAt |-> LeastSet(healthy', connections')]
    ELSE IF InCall(p)
      THEN [reads |-> IF proc[p].pc = "lc_scan" /\ proc'[p] # proc[p]
                        THEN Append(scanLog[p].reads,
                                    [healthy |-> healthy[proc[p].i],
                                     conn |-> connections[proc[p].i]])
                        ELSE scanLog[p].reads,
            leastAt |-> scanLog[p].leastAt
                          \cup LeastSet(healthy', connections')]
    ELSE scanLog[p]]

LCConcStep(A) ==
  /\ A
  /\ ObserveScan
  /\ UNCHANGED <<during, floor, startIndex, observed, maxReturned, history,
                 calls, lastOp, probeLog, twin,
                 trackLog, boot, stream,
                 request, rw>>

NextLCConc ==
  \/ \E p \in Procs : LCConcStep(ServeHTTP(p))
  \/ \E p \in Procs : LCConcStep(LCNextBackend(p))
  \/ \E p \in Procs : LCConcStep(LCScan(p))
  \/ \E p \in Procs : LCConcStep(LCReturn(p))
  \/ \E p \in Procs : LCConcStep(ServeSelected(p))
  \/ \E p \in Procs, ok \in BOOLEAN : LCConcStep(ServeBuild(p, ok))
  \/ \E p \in Procs : LCConcStep(ServeDoFails(p))
  \/ \E p \in Procs : LCConcStep(ServeFail(p))
  \/ \E p \in Procs : LCConcStep(ServeDoResponds(p, 200, FALSE))
  \/ \E p \in Procs, ok \in BOOLEAN : LCConcStep(ServeCopy(p, ok))
  \/ \E p \in Procs : LCConcStep(ServePanics(p))
  \/ \E b \in Backends, ok \in BOOLEAN : LCConcStep(checkBackend(b, ok))

SpecLCConc == InitLCConc /\ [][NextLCConc]_vars

\* C12 as stated: there is an instant during the call at which the returned
\* backend was healthy and its in_flight did not exceed the least in_flight
\* among the backends healthy at that instant.
C12_LeastAtSomeInstant ==
  \A p \in Procs :
    (proc[p].pc = "serve_selected" /\ proc[p].result # NoBackend)
      => proc[p].result \in scanLog[p].leastAt

\* C12, amended: the returned backend was healthy when the scan read its
\* record, and the in_flight read from it did not exceed the in_flight read
\* from any record the scan found healthy (earliest index among equal
\* reads); the reads of different records happen at different instants.
C12_LeastAmongReads ==
  \A p \in Procs :
    (proc[p].pc = "serve_selected" /\ nBackends > 0)
      => LET reads == scanLog[p].reads
             seen == {b \in Backends : reads[b + 1].healthy}
             res == proc[p].result
         IN /\ Len(reads) = nBackends
            /\ res = NoBackend <=> seen = {}
            /\ res # NoBackend
                 => /\ res \in seen
                    /\ \A c \in seen :
                         \/ reads[res + 1].conn < reads[c + 1].conn
                         \/ /\ reads[res + 1].conn = reads[c + 1].conn
                            /\ res <= c

\* A scan returned a backend that at no instant of the call was among the
\* least-loaded healthy backends.
C12_Witness ==
  \E p \in Procs :
    /\ proc[p].pc = "serve_selected"
    /\ proc[p].result # NoBackend
    /\ proc[p].result \notin scanLog[p].leastAt

\* ------------------------------------------- outcomes of the handler
\* The step just taken is a step of goroutine p.
StepOf(p) == proc'[p] # proc[p]

\* C13: when the selector yields no backend, ServeHTTP answers 503 with
\* "No healthy backend available", makes no origin request, and neither the
\* selection nor the answer changes any backend's in_flight or health.
C13_NoBackend503 ==
  /\ [](\A p \in Procs :
          (proc[p].pc = "done" /\ proc[p].exit = "503")
            => /\ proc[p].status = 503
               /\ proc[p].body = "No healthy backend available"
               /\ proc[p].writes = 1
               /\ proc[p].dials = 0
               /\ proc[p].adds = 0 /\ proc[p].removes = 0)
  /\ [][\A p \in Procs :
          /\ (proc[p].pc = "serve_selected" /\ proc[p].result = NoBackend
                /\ StepOf(p))
               => /\ proc'[p].pc = "done" /\ proc'[p].exit = "503"
                  /\ connections' = connections /\ healthy' = healthy
          /\ (InCall(p) /\ StepOf(p))
               => connections' = connections /\ healthy' = healthy]_vars

\* A request was answered 503 because the only backend is unhealthy, while
\* the other handler still holds its connection on that backend.
C13_Witness ==
  \E p, q \in Procs :
    /\ proc[p].pc = "done" /\ proc[p].exit = "503"
    /\ nBackends = 1
    /\ proc[q].pc = "serve_stream"
    /\ connections[0] = 1

\* The requests open on backend b once the step is taken.
InFlightRequestsAfter(b) ==
  {p \in Procs : /\ proc'[p].backend = b
                 /\ proc'[p].adds > 0
                 /\ proc'[p].removes = 0}

\* C14: when client.Do fails, ServeHTTP answers 502 with "Backend
\* unavailable", has written healthy = false on the selected backend when it
\* returns, and has taken its own reservation back: the backend's in_flight
\* is what the other open requests hold.
C14_OriginFailure502 ==
  /\ [](\A p \in Procs :
          (proc[p].pc = "done" /\ proc[p].exit = "502")
            => /\ proc[p].status = 502
               /\ proc[p].body = "Backend unavailable"
               /\ proc[p].writes = 1
               /\ proc[p].dials = 1
               /\ proc[p].adds = 1 /\ proc[p].removes = 1)
  /\ [][\A p \in Procs :
          (proc[p].pc = "serve_fail" /\ proc'[p].pc = "done"
             /\ proc'[p].exit = "502")
            => LET b == proc[p].backend IN
                 /\ ~healthy'[b]
                 /\ connections'[b] = Cardinality(InFlightRequestsAfter(b))
                 /\ \A c \in Backends \ {b} : healthy'[c] = healthy[c]]_vars

\* The request failed at the origin with no other request open: it ends 502
\* with the backend unhealthy and in_flight back at 0.
C14_Witness ==
  \E p \in Procs :
    /\ proc[p].pc = "done" /\ proc[p].exit = "502"
    /\ ~healthy[proc[p].backend]
    /\ connections[proc[p].backend] = 0
    /\ \A q \in Procs \ {p} : proc[q].pc = "idle"

C16_ResponseTimeRecorded ==
  \A p \in Procs :
    (method = "weighted" /\ proc[p].pc = "done"
       /\ proc[p].exit \in {"eof", "copied"})
      => responseTimes[proc[p].backend].requestCount >= 1

\* ------------------------------------------------------ the health checker
\* Time is counted in seconds.  The ticker fires when its interval is over, a
\* probe ends when its client's Timeout is over at the latest, and a goroutine
\* that can receive from StopChan does so before more time passes.

\* What GET <url>/health gives: a transport error or a timeout (err), or a
\* response with a status code.
ProbeOutcomes ==
  {[err |-> TRUE, status |-> 0]}
    \cup {[err |-> FALSE, status |-> st] : st \in {200, 399, 400}}

\* An origin that is up answers with a status below 400 in time; one that is
\* down gives an error, a timeout or a status from 400 on.
OutcomesOf(o) ==
  IF o = "up" THEN {x \in ProbeOutcomes : ~x.err /\ x.status \in {200, 399}}
  ELSE {x \in ProbeOutcomes : x.err \/ x.status = 400}

\* if err != nil || resp.StatusCode >= 400 { SetHealth(false) } else
\* { SetHealth(true) }
ProbeVerdictIgnoresStatus(x) == ~x.err
ProbeVerdict(x) == ~(x.err \/ x.status >= FailureStatus)

\* hc.Start(): go func() { ticker := time.NewTicker(hc.Interval); ... }()
HCStart ==
  /\ hc.loop = "off"
  /\ hc' = [hc EXCEPT !.loop = "on", !.tickIn = ProbeIntervalSec]
  /\ UNCHANGED <<nBackends, invalidURL, origin, method, healthy,
                 connections, index, responseTimes, rng, now, proc>>

\* case <-ticker.C: hc.checkAll(): one goroutine per backend, each with its
\* own client and Timeout.  A probe remembers how the origin answered while
\* it was in flight.
checkAllSkips(h) == [h EXCEPT !.tickIn = ProbeIntervalSec]
checkAll(h) ==
  [h EXCEPT !.tickIn = ProbeIntervalSec,
            !.probes = [b \in Backends |->
                          h.probes[b] \cup {[left |-> ProbeTimeoutSec,
                                             seen |-> {origin[b]}]}]]

HCTick ==
  /\ hc.loop = "on"
  /\ hc.tickIn = 0
  /\ hc' = checkAll(hc)
  /\ UNCHANGED <<nBackends, invalidURL, origin, method, healthy,
                 connections, index, responseTimes, rng, now, proc>>

\* checkBackend(b) of the probe goroutine r: the GET ends with outcome x and
\* the health flag is written.
HCCheckBackend(b, r, x) ==
  /\ b \in Backends
  /\ r \in hc.probes[b]
  /\ x \in UNION {OutcomesOf(o) : o \in r.seen}
  /\ healthy' = SetHealth(healthy, b, ProbeVerdict(x))
  /\ hc' = [hc EXCEPT !.probes[b] = @ \ {r}]
  /\ UNCHANGED <<nBackends, invalidURL, origin, method, connections, index,
                 responseTimes, rng, now, proc>>

\* hc.Stop(): hc.StopChan <- struct{}{} on an unbuffered channel; the call
\* is made once.
HCStopCallBuffered ==
  /\ hc.stop = "none"
  /\ hc' = [hc EXCEPT !.stop = "returned"]
  /\ UNCHANGED <<nBackends, invalidURL, origin, method, healthy,
                 connections, index, responseTimes, rng, now, proc>>
HCStopCall ==
  /\ hc.stop = "none"
  /\ hc' = [hc EXCEPT !.stop = "calling"]
  /\ UNCHANGED <<nBackends, invalidURL, origin, method, healthy,
                 connections, index, responseTimes, rng, now, proc>>

\* case <-hc.StopChan: return.  The send of Stop completes with the receive.
HCStopReceiveKeepsLooping ==
  /\ hc.loop = "on"
  /\ hc.stop = "calling"
  /\ hc' = [hc EXCEPT !.stop = "returned"]
  /\ UNCHANGED <<nBackends, invalidURL, origin, method, healthy,
                 connections, index, responseTimes, rng, now, proc>>
HCStopReceive ==
  /\ hc.loop = "on"
  /\ hc.stop = "calling"
  /\ hc' = [hc EXCEPT !.loop = "stopped", !.stop = "returned"]
  /\ UNCHANGED <<nBackends, invalidURL, origin, method, healthy,
                 connections, index, responseTimes, rng, now, proc>>

\* The origin's /health endpoint starts or stops answering.
OriginFlips(b) ==
  /\ b \in Backends
  /\ LET o == IF origin[b] = "up" THEN "down" ELSE "up" IN
       /\ origin' = [origin EXCEPT ![b] = o]
       /\ hc' = [hc EXCEPT !.probes[b] =
                   {[r EXCEPT !.seen = @ \cup {o}] : r \in hc.probes[b]}]
  /\ UNCHANGED <<nBackends, invalidURL, method, healthy, connections, index,
                 responseTimes, rng, now, proc>>

\* A forwarding handler's client.Do failed on b: backend.SetHealth(false).
HandlerMarksUp(b) ==
  /\ b \in Backends
  /\ healthy' = SetHealth(healthy, b, TRUE)
  /\ UNCHANGED <<nBackends, invalidURL, hc, origin, method, connections,
                 index, responseTimes, rng, now, proc>>
HandlerMarksDown(b) ==
  /\ b \in Backends
  /\ healthy' = SetHealth(healthy, b, FALSE)
  /\ UNCHANGED <<nBackends, invalidURL, hc, origin, method, connections,
                 index, responseTimes, rng, now, proc>>

\* One second passes.
Advance ==
  /\ hc.loop = "on" => hc.tickIn > 0 /\ hc.stop # "calling"
  /\ \A b \in Backends : \A r \in hc.probes[b] : r.left > 0
  /\ hc' = [hc EXCEPT
              !.tickIn = IF hc.loop = "on" THEN @ - 1 ELSE @,
              !.probes = [b \in Backends |->
                            {[r EXCEPT !.left = @ - 1] : r \in hc.probes[b]}]]
  /\ UNCHANGED <<nBackends, invalidURL, origin, method, healthy,
                 connections, index, responseTimes, rng, now, proc>>

\* The prober runs while origins change how they answer and handlers mark
\* backends down.
InitProber ==
  /\ nBackends \in 1..MaxBackends
  /\ InitCommon
  /\ method = "roundrobin"

\* A probe completes and is logged: its backend, its outcome, and whether
\* Stop had returned by then.
LoggedCheckBackend(b, r, x) ==
  /\ HCCheckBackend(b, r, x)
  /\ probeLog' = [probeLog EXCEPT
                    !.last = [b |-> b, err |-> x.err, status |-> x.status,
                              seq |-> 1 - @.seq,
                              stopped |-> hc.stop = "returned"]]
  /\ UNCHANGED <<during, floor, startIndex, observed, maxReturned, history,
                 calls, lastOp, scanLog, twin,
                 trackLog, boot, stream,
                 request, rw>>

NextProber ==
  \/ Step(HCStart)
  \/ Step(HCTick)
  \/ \E b \in Backends : \E r \in hc.probes[b], x \in ProbeOutcomes :
       LoggedCheckBackend(b, r, x)
  \/ Step(HCStopCall)
  \/ Step(HCStopReceive)
  \/ \E b \in Backends : Step(OriginFlips(b))
  \/ \E b \in Backends : Step(HandlerMarksDown(b))
  \/ Step(Advance)

SpecProber == InitProber /\ [][NextProber]_vars

\* C17: a probe that completes sets its backend's health to true if and only
\* if the response arrived in time with a status below 400, to false on an
\* error, a timeout or a status from 400 on, and leaves every other
\* backend's flag as it was.
C17_ProbeVerdict ==
  [][probeLog'.last # probeLog.last
       => LET l == probeLog'.last IN
            /\ healthy'[l.b] = (~l.err /\ l.status < 400)
            /\ \A c \in Backends \ {l.b} : healthy'[c] = healthy[c]
            /\ Cardinality(hc'.probes[l.b])
                 = Cardinality(hc.probes[l.b]) - 1]_vars

\* A probe of backend 0 got status 399 and set it healthy while backend 1,
\* marked down earlier, stayed unhealthy.
C17_Witness ==
  /\ nBackends = 2
  /\ probeLog.last.b = 0
  /\ probeLog.last.status = 399
  /\ healthy[0]
  /\ ~healthy[1]

\* Stopping is checked with up to MaxStopBackends backends probed.
MaxStopBackends == 1

InitProberStop ==
  /\ nBackends \in 1..MaxStopBackends
  /\ InitCommon
  /\ method = "roundrobin"

\* The loop goroutine does receive from StopChan when a Stop call is
\* waiting.
SpecProberFair ==
  InitProberStop /\ [][NextProber]_vars /\ WF_vars(Step(HCStopReceive))

\* C19: a Stop call made on a started prober returns; once it has returned
\* the loop has ended and no probe is launched any more.
C19_StopEndsRounds ==
  /\ [](hc.stop = "returned" => hc.loop = "stopped")
  /\ [][hc.stop = "returned"
          => \A b \in Backends :
               Cardinality(hc'.probes[b]) <= Cardinality(hc.probes[b])]_vars
  /\ ((hc.loop = "on" /\ hc.stop = "calling") ~> hc.stop = "returned")

\* A probe launched by the last round completed, and wrote the health flag,
\* after Stop had returned.
C19_Witness ==
  /\ hc.stop = "returned"
  /\ probeLog.last.stopped
  /\ probeLog.last.b # NoBackend

\* ------------------------------------------------- convergence of health
\* A backend's flag agrees with its origin when it is healthy exactly if the
\* origin's /health endpoint answers.
Agrees(h, o, b) == h[b] <=> (o[b] = "up")

ConvergenceBound == ProbeIntervalSec + ProbeTimeoutSec

\* For each backend, the seconds that have passed with the prober running
\* since its flag last agreed with its origin or its origin last changed;
\* counted up to one past ConvergenceBound.
ObserveAgreement ==
  probeLog' = [probeLog EXCEPT !.since = [b \in Backends |->
    IF \/ Agrees(healthy', origin', b)
       \/ origin'[b] # origin[b]
       \/ hc'.loop # "on"
      THEN 0
    ELSE IF hc.loop = "on" /\ hc'.tickIn = hc.tickIn - 1
      THEN IF probeLog.since[b] > ConvergenceBound THEN probeLog.since[b]
           ELSE probeLog.since[b] + 1
    ELSE probeLog.since[b]]]

TimedStep(A) ==
  /\ A
  /\ ObserveAgreement
  /\ UNCHANGED <<during, floor, startIndex, observed, maxReturned, history,
                 calls, lastOp, scanLog, twin,
                 trackLog, boot, stream,
                 request, rw>>

NextProberTimed ==
  \/ TimedStep(HCStart)
  \/ TimedStep(HCTick)
  \/ \E b \in Backends : \E r \in hc.probes[b], x \in ProbeOutcomes :
       TimedStep(HCCheckBackend(b, r, x))
  \/ TimedStep(HCStopCall)
  \/ TimedStep(HCStopReceive)
  \/ \E b \in Backends : TimedStep(OriginFlips(b))
  \/ \E b \in Backends : TimedStep(HandlerMarksDown(b))
  \/ TimedStep(Advance)

SpecProberTimed == InitProber /\ [][NextProberTimed]_vars

\* C18: while the prober runs and a backend's /health keeps answering the
\* same way, no stretch longer than one probe interval plus the probe
\* timeout passes without its healthy flag agreeing with that answer, also
\* with handlers marking the backend down in between.
C18_ConvergesWithinBound ==
  \A b \in Backends : probeLog.since[b] <= ConvergenceBound

\* An origin has answered for the whole bound while its flag stayed false:
\* the probe that will set it is about to end.
C18_Witness ==
  \E b \in Backends :
    /\ probeLog.since[b] = ConvergenceBound
    /\ origin[b] = "up"
    /\ ~healthy[b]
    /\ hc.loop = "on"

\* ------------------------------------------- two seeded weighted selectors
\* Two WeightedResponseTimeBalancer values over the same backends, with the
\* same tracker contents, each with its own random source, each called
\* sequentially.
MaxCalls == 2
MaxClock == 2
SampleMs == 50

SampledTracker ==
  [totalTime |-> SampleMs * UnitsPerMs, requestCount |-> 1, lastUpdate |-> 0]

\* NewWeightedResponseTimeBalancer seeds each source from the clock, so the
\* two selectors' sources start in different states; the trackers are fresh
\* or hold one recorded sample.
InitDet ==
  /\ nBackends \in 1..MaxBackends
  /\ method = "weighted"
  /\ healthy \in [Backends -> BOOLEAN]
  /\ connections = [b \in Backends |-> 0]
  /\ index = 0
  /\ now = 0
  /\ responseTimes \in [Backends -> {NewTracker, SampledTracker}]
  /\ rng = 0
  /\ invalidURL = {}
  /\ proc = [p \in Procs |-> IdleProc]
  /\ during = [p \in Procs |-> IdleDuring]
  /\ floor = [p \in Procs |-> 0]
  /\ startIndex = [p \in Procs |-> 0]
  /\ observed = <<>>
  /\ maxReturned = 0
  /\ history = <<>>
  /\ calls = 0
  /\ lastOp = [op |-> "none", b |-> NoBackend, before |-> 0]
  /\ scanLog = [p \in Procs |-> IdleScan]
  /\ hc = IdleHC
  /\ origin = [b \in Backends |-> "up"]
  /\ probeLog = IdleProbeLog
  /\ trackLog = IdleTrackLog
  /\ boot = IdleBoot
  /\ stream = IdleStream
  /\ request = IdleRequest
  /\ rw = IdleRW
  /\ twin = [w \in Selectors |->
               [rng |-> (w - 1) % RngMod, now |-> 0, seed |-> NoSeed,
                calls |-> <<>>]]

DetUnchanged ==
  UNCHANGED <<nBackends, method, healthy, connections, index, responseTimes,
              rng, now, invalidURL, proc, during, floor, startIndex, observed,
              maxReturned, history, calls, lastOp, scanLog, hc, origin,
              probeLog, trackLog, boot, stream,
                 request, rw>>

\* The seeds given to SetSeed: the tests' seed and its successor.
Seeds == {12345, 12346}

\* w.rng = rand.New(rand.NewSource(seed))
NewSourceKeepsOld(old, seed) == old
NewSource(old, seed) == seed % RngMod

SetSeed(w, seed) ==
  /\ twin[w].seed = NoSeed
  /\ twin' = [twin EXCEPT ![w].rng = NewSource(@, seed), ![w].seed = seed]
  /\ DetUnchanged

\* The healthy backends in list order, and their weights at clock reading t.
HealthyBackends ==
  LET IsUp(b) == IsHealthy(b)
  IN SelectSeq([i \in 1..nBackends |-> i - 1], IsUp)

WeightsAt(hb, t) ==
  [i \in 1..Len(hb) |-> calculateWeightAt(responseTimes[hb[i]], t)]

\* One whole NextBackend call of selector w, made at clock reading t.
TwinNextBackend(w, t) ==
  /\ twin[w].seed # NoSeed
  /\ Len(twin[w].calls) < MaxCalls
  /\ t >= twin[w].now
  /\ LET hb == HealthyBackends
         wts == WeightsAt(hb, t)
         drawn == hb # <<>> /\ SumSeq(wts) # 0
         r == RngNext(twin[w].rng)
         res == IF hb = <<>> THEN NoBackend ELSE selectByWeight(hb, wts, r)
     IN twin' = [twin EXCEPT
                   ![w].rng = IF drawn THEN r ELSE @,
                   ![w].now = t,
                   ![w].calls = Append(@, [at |-> t, backend |-> res])]
  /\ DetUnchanged

NextDet ==
  \/ \E w \in Selectors, seed \in Seeds : SetSeed(w, seed)
  \/ \E w \in Selectors, t \in 0..MaxClock : TwinNextBackend(w, t)

SpecDet == InitDet /\ [][NextDet]_vars

SameSeed == twin[1].seed # NoSeed /\ twin[1].seed = twin[2].seed

BothAnswered ==
  1..(IF Len(twin[1].calls) <= Len(twin[2].calls)
        THEN Len(twin[1].calls) ELSE Len(twin[2].calls))

\* C20 as stated: two selectors seeded alike, over the same backends, health
\* flags and trackers, return the same backend at every position of their
\* call sequences.
C20_SameSeedSameSequence ==
  SameSeed => \A i \in BothAnswered :
                twin[1].calls[i].backend = twin[2].calls[i].backend

\* C20 as the code has it: two selectors seeded alike, over the same
\* backends, health flags and trackers, return the same backend at every
\* position where both calls were made at the same clock reading, the decay
\* of a tracker's weight depending on the time since its last update.
C20_SameSeedSameClockSameSequence ==
  SameSeed => \A i \in BothAnswered :
                twin[1].calls[i].at = twin[2].calls[i].at
                  => twin[1].calls[i].backend = twin[2].calls[i].backend

\* Both selectors, seeded alike, answered MaxCalls calls at the same clock
\* readings, after the trackers' last update, and the draws told backends
\* apart.
C20_Witness ==
  /\ SameSeed
  /\ Len(twin[1].calls) = MaxCalls
  /\ Len(twin[2].calls) = MaxCalls
  /\ \A i \in 1..MaxCalls : twin[1].calls[i].at = twin[2].calls[i].at
  /\ twin[1].calls[MaxCalls].at > 0
  /\ \E b \in Backends : responseTimes[b].requestCount > 0
  /\ \E i, j \in 1..MaxCalls :
       twin[1].calls[i].backend # twin[1].calls[j].backend

\* ------------------------------------------------ response-time tracker
\* RecordResponseTime, GetAverageResponseTime and ResetStats called on one
\* weighted balancer, on its registered backends and on a backend that is
\* not in its list, while the clock advances.
MaxTracked == 1
MaxSamples == 2

\* The backend that is not in w.backends and has no entry in w.responseTimes
\* until a response time is recorded for it.
Stranger == nBackends

\* The durations recorded: none at all, and one that does not divide evenly.
Durations == {0, 3}

\* tracker = &responseTimeTracker{} for a backend without an entry.
ZeroTracker == [totalTime |-> 0, requestCount |-> 0, lastUpdate |-> 0]

TrackerOf(rt, b) == IF b \in DOMAIN rt THEN rt[b] ELSE ZeroTracker

\* Backend.URL: the first two records carry the same URL string.
URLOf(b) == IF b <= 1 THEN "http://a" ELSE "http://b"

\* tracker.totalTime += responseTime; tracker.requestCount++;
\* tracker.lastUpdate = time.Now()
RecordResponseTimeByURL(rt, b, d, t) ==
  [x \in DOMAIN rt \cup {b} |->
     IF URLOf(x) = URLOf(b)
       THEN [totalTime |-> TrackerOf(rt, x).totalTime + d,
             requestCount |-> TrackerOf(rt, x).requestCount + 1,
             lastUpdate |-> t]
     ELSE rt[x]]
RecordResponseTimeOverwrites(rt, b, d, t) ==
  [x \in DOMAIN rt \cup {b} |->
     IF x = b THEN [totalTime |-> d,
                    requestCount |-> TrackerOf(rt, b).requestCount + 1,
                    lastUpdate |-> t]
     ELSE rt[x]]
RecordResponseTime(rt, b, d, t) ==
  [x \in DOMAIN rt \cup {b} |->
     IF x = b THEN [totalTime |-> TrackerOf(rt, b).totalTime + d,
                    requestCount |-> TrackerOf(rt, b).requestCount + 1,
                    lastUpdate |-> t]
     ELSE rt[x]]

\* if !exists || tracker.requestCount == 0 { return 0 }
\* return tracker.totalTime / time.Duration(tracker.requestCount)
GetAverageResponseTime(rt, b) ==
  IF b \notin DOMAIN rt \/ rt[b].requestCount = 0 THEN 0
  ELSE rt[b].totalTime \div rt[b].requestCount

\* for backend := range w.responseTimes {
\*   w.responseTimes[backend] = &responseTimeTracker{lastUpdate: time.Now()} }
ResetStatsDropsSampled(rt, t) ==
  [x \in {y \in DOMAIN rt : rt[y].requestCount = 0} |->
     [totalTime |-> 0, requestCount |-> 0, lastUpdate |-> t]]
ResetStatsKeepsTotal(rt, t) ==
  [x \in DOMAIN rt |-> [rt[x] EXCEPT !.requestCount = 0, !.lastUpdate = t]]
ResetStats(rt, t) ==
  [x \in DOMAIN rt |-> [totalTime |-> 0, requestCount |-> 0, lastUpdate |-> t]]

SamplesHeld(rt) ==
  LET RECURSIVE Sum(_)
      Sum(S) == IF S = {} THEN 0
                ELSE LET x == CHOOSE y \in S : TRUE
                     IN rt[x].requestCount + Sum(S \ {x})
  IN Sum(DOMAIN rt)

TrackerUnchanged ==
  UNCHANGED <<nBackends, method, healthy, connections, index, rng, invalidURL,
              proc, during, floor, startIndex, observed, maxReturned, history,
              calls, lastOp, scanLog, hc, origin, probeLog, twin, boot,
              stream,
                 request, rw>>

InitTracker ==
  /\ nBackends \in 1..MaxTracked
  /\ InitCommon
  /\ method = "weighted"
  /\ rng = 0

ApiRecordResponseTime(b, d) ==
  /\ SamplesHeld(responseTimes) < MaxSamples
  /\ responseTimes' = RecordResponseTime(responseTimes, b, d, now)
  /\ trackLog' = [op |-> "RecordResponseTime", b |-> b, d |-> d, avg |-> 0]
  /\ now' = now
  /\ TrackerUnchanged

ApiGetAverageResponseTime(b) ==
  /\ trackLog' = [op |-> "GetAverageResponseTime", b |-> b, d |-> 0,
                  avg |-> GetAverageResponseTime(responseTimes, b)]
  /\ UNCHANGED <<responseTimes, now>>
  /\ TrackerUnchanged

ApiResetStats ==
  /\ responseTimes' = ResetStats(responseTimes, now)
  /\ trackLog' = [op |-> "ResetStats", b |-> NoBackend, d |-> 0, avg |-> 0]
  /\ now' = now
  /\ TrackerUnchanged

\* The clock moves on by one unit.
ClockTick ==
  /\ now < MaxClock
  /\ now' = now + 1
  /\ UNCHANGED <<responseTimes, trackLog>>
  /\ TrackerUnchanged

NextTracker ==
  \/ \E b \in Backends \cup {Stranger}, d \in Durations :
       ApiRecordResponseTime(b, d)
  \/ \E b \in Backends \cup {Stranger} : ApiGetAverageResponseTime(b)
  \/ ApiResetStats
  \/ ClockTick

SpecTracker == InitTracker /\ [][NextTracker]_vars

\* C22: RecordResponseTime(b, d) adds d to b's total, adds exactly one to its
\* count and sets its last update to the clock, leaving the other trackers
\* alone; GetAverageResponseTime(b) returns total / count rounded down, and 0
\* for a backend without samples or without a tracker, and changes nothing.
C22_RecordAndAverage ==
  [][(trackLog' # trackLog \/ responseTimes' # responseTimes)
       => LET l == trackLog'
              old == TrackerOf(responseTimes, l.b)
          IN /\ l.op = "RecordResponseTime" =>
                  /\ l.b \in DOMAIN responseTimes'
                  /\ responseTimes'[l.b].totalTime = old.totalTime + l.d
                  /\ responseTimes'[l.b].requestCount = old.requestCount + 1
                  /\ responseTimes'[l.b].lastUpdate = now
                  /\ \A x \in DOMAIN responseTimes \ {l.b} :
                       responseTimes'[x] = responseTimes[x]
             /\ l.op = "GetAverageResponseTime" =>
                  /\ responseTimes' = responseTimes
                  /\ (l.b \notin DOMAIN responseTimes \/ old.requestCount = 0)
                       => l.avg = 0
                  /\ (l.b \in DOMAIN responseTimes /\ old.requestCount > 0)
                       => /\ l.avg * old.requestCount <= old.totalTime
                          /\ old.totalTime < (l.avg + 1) * old.requestCount]_vars

\* Two samples whose sum is odd were averaged, after the backend outside the
\* list got its tracker by a first recording.
C22_Witness ==
  /\ trackLog.op = "GetAverageResponseTime"
  /\ trackLog.b = Stranger
  /\ Stranger \in DOMAIN responseTimes
  /\ responseTimes[Stranger].requestCount = MaxSamples
  /\ responseTimes[Stranger].totalTime = 3
  /\ trackLog.avg * MaxSamples < 3

\* C23 as stated: in every state of the tracker the count is zero exactly
\* when the total is zero, and no tracker's last update ever decreases.
C23_CountZeroIffTotalZero ==
  /\ [](\A b \in DOMAIN responseTimes :
          responseTimes[b].requestCount = 0 <=> responseTimes[b].totalTime = 0)
  /\ [][\A b \in DOMAIN responseTimes :
          responseTimes'[b].lastUpdate >= responseTimes[b].lastUpdate]_vars

\* C23 as the code has it: a tracker without samples has a zero total (a
\* recorded duration of 0 leaves a zero total with a positive count), and
\* no tracker's last update ever decreases.
C23_NoSamplesNoTotal ==
  /\ [](\A b \in DOMAIN responseTimes :
          responseTimes[b].requestCount = 0 => responseTimes[b].totalTime = 0)
  /\ [][\A b \in DOMAIN responseTimes :
          responseTimes'[b].lastUpdate >= responseTimes[b].lastUpdate]_vars

\* After samples with a positive total, ResetStats at a later clock reading
\* left a tracker without samples.
C23_Witness ==
  /\ trackLog.op = "ResetStats"
  /\ now > 0
  /\ \E b \in DOMAIN responseTimes :
       /\ responseTimes[b].requestCount = 0
       /\ responseTimes[b].lastUpdate = now

\* ------------------------------------------------- weights and selection
\* One caller selects on a weighted balancer whose trackers hold what earlier
\* recordings left: no samples, or samples with a fast, a slow or a very slow
\* average, last updated at construction or just now.
SampleAverages == {49, 50, 200, 10000}

TrackerInputs(t) ==
  {ZeroTracker}
    \cup {[totalTime |-> ms * UnitsPerMs, requestCount |-> 1, lastUpdate |-> lu] :
            ms \in SampleAverages, lu \in {0, t}}

InitWeigh ==
  /\ nBackends \in 1..MaxBackends
  /\ method = "weighted"
  /\ healthy \in [Backends -> BOOLEAN]
  /\ connections = [b \in Backends |-> 0]
  /\ index = 0
  /\ now \in {0, MaxClock}
  /\ responseTimes \in [Backends -> TrackerInputs(now)]
  /\ rng \in 0..(RngMod - 1)
  /\ invalidURL = {}
  /\ proc = [p \in Procs |-> IdleProc]
  /\ during = [p \in Procs |-> IdleDuring]
  /\ floor = [p \in Procs |-> 0]
  /\ startIndex = [p \in Procs |-> 0]
  /\ observed = <<>>
  /\ maxReturned = 0
  /\ history = <<>>
  /\ calls = 0
  /\ lastOp = [op |-> "none", b |-> NoBackend, before |-> 0]
  /\ scanLog = [p \in Procs |-> IdleScan]
  /\ hc = IdleHC
  /\ origin = [b \in Backends |-> "up"]
  /\ probeLog = IdleProbeLog
  /\ twin = IdleTwin
  /\ trackLog = IdleTrackLog
  /\ boot = IdleBoot
  /\ stream = IdleStream
  /\ request = IdleRequest
  /\ rw = IdleRW

NextWeigh ==
  \/ Step(CallNextBackend(Caller))
  \/ Step(WNextBackend(Caller))
  \/ Step(WCollect(Caller))
  \/ Step(WSelect(Caller))

SpecWeigh == InitWeigh /\ [][NextWeigh]_vars

\* The caller has collected the healthy backends and their weights and is
\* about to draw.
Selecting == proc[Caller].pc = "w_select"

\* Average response time of a tracker in whole milliseconds.
AvgMs(tracker) == Milliseconds(tracker.totalTime \div tracker.requestCount)

\* Of Percent draws spread evenly over [0, 1), how many select the first of
\* the collected backends.
Percent == 100
Tolerance == 5

FirstShare ==
  Cardinality({r \in 0..(Percent - 1) :
                 selectByWeightOn(proc[Caller].hb, proc[Caller].wts, r, Percent)
                   = proc[Caller].hb[1]})

\* The first share is within Tolerance points of (b + 1) / (a + b + 2).
ShareAsPredicted(a, b) ==
  LET d == FirstShare * (a + b + 2) - Percent * (b + 1)
  IN /\ d <= Tolerance * (a + b + 2)
     /\ 0 - d <= Tolerance * (a + b + 2)

\* C21 as stated: with two healthy backends whose recorded averages are a ms
\* and b ms, the first is selected with probability (b + 1) / (a + b + 2)
\* within the tolerance, that is at the ratio (b + 1) / (a + 1); a backend
\* without samples weighs 10.0.
C21_ShareFollowsAverages ==
  Selecting =>
    LET hb == proc[Caller].hb
        wts == proc[Caller].wts
    IN /\ \A i \in 1..Len(hb) :
            responseTimes[hb[i]].requestCount = 0 => wts[i] = 10000
       /\ (/\ Len(hb) = 2
           /\ \A i \in 1..2 : responseTimes[hb[i]].requestCount > 0)
            => ShareAsPredicted(AvgMs(responseTimes[hb[1]]),
                                AvgMs(responseTimes[hb[2]]))

\* C21 as the code has it: the same, for two trackers that were last updated
\* at the same time, so that both averages decay alike, and whose weights lie
\* above the floor of 0.1.
C21_ShareFollowsAveragesSameAge ==
  Selecting =>
    LET hb == proc[Caller].hb
        wts == proc[Caller].wts
    IN /\ \A i \in 1..Len(hb) :
            responseTimes[hb[i]].requestCount = 0 => wts[i] = 10000
       /\ (/\ Len(hb) = 2
           /\ \A i \in 1..2 : responseTimes[hb[i]].requestCount > 0
           /\ responseTimes[hb[1]].lastUpdate = responseTimes[hb[2]].lastUpdate
           /\ \A i \in 1..2 : wts[i] > 100)
            => ShareAsPredicted(AvgMs(responseTimes[hb[1]]),
                                AvgMs(responseTimes[hb[2]]))

\* The fast backend (50 ms) and the slow one (200 ms), both aged alike: the
\* fast one takes 80 of 100 evenly spread draws.
C21_Witness ==
  /\ Selecting
  /\ Len(proc[Caller].hb) = 2
  /\ now > 0
  /\ \A i \in 1..2 : responseTimes[proc[Caller].hb[i]].requestCount > 0
  /\ \A i \in 1..2 : responseTimes[proc[Caller].hb[i]].lastUpdate = 0
  /\ AvgMs(responseTimes[proc[Caller].hb[1]]) = 50
  /\ AvgMs(responseTimes[proc[Caller].hb[2]]) = 200
  /\ FirstShare = 80

\* The whole weighted draw of the step just taken: the caller was about to
\* select and has returned.
Selects == Selecting /\ proc'[Caller].pc = "returned"

\* C29 as stated: with T the sum of the collected weights and a draw in
\* [0, T), selectByWeight returns the backend at the smallest index whose
\* prefix sum of weights exceeds the draw, the last one when none does, and
\* always a member of the healthy list it was given.
C29_FirstPrefixSumExceedingDraw ==
  [][Selects =>
       LET hb == proc[Caller].hb
           wts == proc[Caller].wts
           T == SumSeq(wts)
           Cum(i) == SumSeq(SubSeq(wts, 1, i))
           exceeds == {i \in 1..Len(wts) : Cum(i) * RngMod > rng' * T}
           first == IF exceeds = {} THEN Len(hb)
                    ELSE CHOOSE i \in exceeds : \A j \in exceeds : i <= j
       IN /\ proc'[Caller].result = hb[first]
          /\ \E i \in 1..Len(hb) : proc'[Caller].result = hb[i]]_vars

\* C30: every collected weight is 10.0 for a tracker without samples and at
\* least the floor 0.1 otherwise, so the total is positive whenever some
\* backend is healthy, the draw is always made, and for every collected
\* backend there is a draw in [0, T) that selects it.
C30_WeightsPositive ==
  /\ [](Selecting =>
          LET hb == proc[Caller].hb
              wts == proc[Caller].wts
              T == SumSeq(wts)
              Cum(i) == SumSeq(SubSeq(wts, 1, i))
          IN /\ Len(hb) > 0 /\ Len(wts) = Len(hb)
             /\ \A i \in 1..Len(hb) :
                  /\ responseTimes[hb[i]].requestCount = 0 => wts[i] = 10000
                  /\ wts[i] >= 100
             /\ T > 0
             /\ \A i \in 1..Len(hb) :
                  LET r == (Cum(i - 1) * DrawGrid) \div T + 1
                  IN /\ r < DrawGrid
                     /\ selectByWeightOn(hb, wts, r, DrawGrid) = hb[i])
  /\ [][Selects => rng' = RngNext(rng)]_vars

\* A very slow backend is held at the floor next to a far heavier one, and
\* a backend is unhealthy.
C30_Witness ==
  /\ Selecting
  /\ Len(proc[Caller].hb) < nBackends
  /\ \E i \in 1..Len(proc[Caller].hb) :
       /\ responseTimes[proc[Caller].hb[i]].requestCount > 0
       /\ proc[Caller].wts[i] = 100

\* ------------------------------------------------------------- start-up
\* main(): a configuration file may be found and loaded, the command-line
\* flags are parsed onto the loaded (or default) configuration, the result
\* is validated, the backends are built and the balancer is made.
MaxFileBackends == 1
MaxFlagValues == 1

\* No configuration file found; a flag that is not on the command line.
NoFile == [found |-> FALSE, port |-> 0, backends |-> <<>>, method |-> ""]
NoFlag == <<>>

PortMin == 1
PortMax == 65535
DefaultPort == 8080

\* var SupportedMethods = map[string]bool{...}
SupportedMethods == {"roundrobin", "leastconn", "weighted"}

RECURSIVE SeqsUpTo(_, _)
SeqsUpTo(S, n) ==
  IF n = 0 THEN {<<>>}
  ELSE LET shorter == SeqsUpTo(S, n - 1)
       IN shorter \cup {Append(q, x) : q \in {t \in shorter : Len(t) = n - 1},
                                        x \in S}

\* The "backends" entries a file may list: a URL with a weight; a weight
\* left out of the JSON is read as 0.
FileBackendConfigs ==
  {[url |-> u, weight |-> w] : u \in {"http://a", "http://b"}, w \in {0, 3}}

Files ==
  {[found |-> TRUE, port |-> pt, backends |-> bs, method |-> mt] :
     pt \in {PortMin, PortMax + 1},
     bs \in SeqsUpTo(FileBackendConfigs, MaxFileBackends),
     mt \in {"leastconn", "Weighted"}}

\* One -backend flag value is a comma-separated list, here split already.
FlagValues ==
  {<<"http://a">>, <<" http://b">>, <<"http://b", "http://a">>,
   <<"http://a", " ">>}

Flags ==
  {[port |-> pt, backend |-> bv, method |-> mt] :
     pt \in {NoFlag, <<PortMin - 1>>, <<PortMax>>},
     bv \in SeqsUpTo(FlagValues, MaxFlagValues),
     mt \in {NoFlag, <<"weighted">>, <<"random">>}}

\* strings.TrimSpace on the parts that occur.
TrimSpace(part) ==
  IF part = " http://b" THEN "http://b"
  ELSE IF part = " " THEN ""
  ELSE part

\* Config.Validate(): the first failing check gives the error.
ValidatePortFirst(c) ==
  IF c.Port < PortMin \/ c.Port > PortMax THEN "invalid port"
  ELSE IF Len(c.Backends) = 0 THEN "at least one backend must be specified"
  ELSE IF c.Method \notin SupportedMethods
    THEN "unsupported load balancing method"
  ELSE "nil"
Validate(c) ==
  IF Len(c.Backends) = 0 THEN "at least one backend must be specified"
  ELSE IF c.Method \notin SupportedMethods
    THEN "unsupported load balancing method"
  ELSE IF c.Port < PortMin \/ c.Port > PortMax THEN "invalid port"
  ELSE "nil"

\* StringSlice.Set(value) for an already split value: each part is trimmed
\* and appended; an empty part is an error, after the parts before it were
\* appended.
RECURSIVE StringSliceSet(_, _)
StringSliceSet(sl, parts) ==
  IF parts = <<>> THEN [s |-> sl, err |-> "nil"]
  ELSE IF TrimSpace(Head(parts)) = ""
    THEN [s |-> sl, err |-> "empty value in comma-separated list"]
  ELSE StringSliceSet(Append(sl, TrimSpace(Head(parts))), Tail(parts))

\* flag.Parse() calls Set once per -backend flag, in order, and stops at
\* the first error.
RECURSIVE SetAll(_, _)
SetAll(sl, values) ==
  IF values = <<>> THEN [s |-> sl, err |-> "nil"]
  ELSE LET one == StringSliceSet(sl, Head(values))
       IN IF one.err # "nil" THEN one ELSE SetAll(one.s, Tail(values))

\* LoadConfigFromFile: the URLs in order, and the weight of each URL, 1 for
\* a weight that is missing or not positive; a URL listed twice keeps the
\* weight of its last entry.
FileURLs(f) == [i \in 1..Len(f.backends) |-> f.backends[i].url]

FileWeights(f) ==
  LET listed == {f.backends[i].url : i \in 1..Len(f.backends)}
      last(u) == CHOOSE i \in 1..Len(f.backends) :
                   /\ f.backends[i].url = u
                   /\ \A j \in 1..Len(f.backends) :
                        f.backends[j].url = u => j <= i
  IN [u \in listed |-> IF f.backends[last(u)].weight <= 0 THEN 1
                       ELSE f.backends[last(u)].weight]

EmptyWeights == [u \in {} |-> 1]

IdleMain(f, g) ==
  [pc |-> "start", file |-> f, flags |-> g,
   cfg |-> [Port |-> 0, Backends |-> <<>>, Method |-> ""],
   weights |-> EmptyWeights, err |-> "nil",
   validated |-> [of |-> "none",
                  cfg |-> [Port |-> 0, Backends |-> <<>>, Method |-> ""],
                  err |-> "nil"],
   backends |-> <<>>, bal |-> "none"]

InitMain ==
  /\ nBackends = 0
  /\ method = "roundrobin"
  /\ healthy = [b \in Backends |-> NewBackendHealthy]
  /\ connections = [b \in Backends |-> 0]
  /\ index = 0
  /\ now = 0
  /\ responseTimes = [b \in Backends |-> NewTracker]
  /\ rng = 0
  /\ invalidURL = {}
  /\ proc = [p \in Procs |-> IdleProc]
  /\ during = [p \in Procs |-> IdleDuring]
  /\ floor = [p \in Procs |-> 0]
  /\ startIndex = [p \in Procs |-> 0]
  /\ observed = <<>>
  /\ maxReturned = 0
  /\ history = <<>>
  /\ calls = 0
  /\ lastOp = [op |-> "none", b |-> NoBackend, before |-> 0]
  /\ scanLog = [p \in Procs |-> IdleScan]
  /\ hc = IdleHC
  /\ origin = [b \in Backends |-> "up"]
  /\ probeLog = IdleProbeLog
  /\ twin = IdleTwin
  /\ trackLog = IdleTrackLog
  /\ stream = IdleStream
  /\ request = IdleRequest
  /\ rw = IdleRW
  /\ \E f \in Files \cup {NoFile}, g \in Flags : boot = IdleMain(f, g)

MainUnchanged ==
  UNCHANGED <<nBackends, method, healthy, connections, index, responseTimes,
              rng, now, invalidURL, proc, during, floor, startIndex, observed,
              maxReturned, history, calls, lastOp, scanLog, hc, origin,
              probeLog, twin, trackLog, stream,
                 request, rw>>

\* configFile, err := config.FindConfigFile(); with a file,
\* LoadConfigFromFile builds the Config and validates it (log.Fatalf on an
\* error); without one the defaults are taken.
MainLoad ==
  /\ boot.pc = "start"
  /\ IF ~boot.file.found
       THEN boot' = [boot EXCEPT
                       !.pc = "loaded",
                       !.cfg = [Port |-> DefaultPort, Backends |-> <<>>,
                                Method |-> "roundrobin"],
                       !.weights = EmptyWeights]
       ELSE LET config == [Port |-> boot.file.port,
                           Backends |-> FileURLs(boot.file),
                           Method |-> boot.file.method]
                e == Validate(config)
            IN boot' = [boot EXCEPT
                          !.pc = IF e = "nil" THEN "loaded" ELSE "fatal",
                          !.cfg = config,
                          !.validated = [of |-> "file", cfg |-> config,
                                         err |-> e],
                          !.err = e,
                          !.weights = IF e = "nil" THEN FileWeights(boot.file)
                                      ELSE EmptyWeights]
  /\ MainUnchanged

\* flag.IntVar(&cfg.Port, ...); flag.Var(&cfg.Backends, ...);
\* flag.StringVar(&cfg.Method, ...); flag.Parse(): each flag given is
\* stored through its pointer; an error of Set ends the program.
ParsedBackends(c, g) == SetAll(c.Backends, g.backend)

MainParseFlags ==
  /\ boot.pc = "loaded"
  /\ LET g == boot.flags
         parsed == ParsedBackends(boot.cfg, g)
     IN boot' = [boot EXCEPT
                   !.pc = IF parsed.err = "nil" THEN "parsed" ELSE "fatal",
                   !.err = parsed.err,
                   !.cfg = [Port |-> IF g.port = NoFlag THEN boot.cfg.Port
                                     ELSE g.port[1],
                            Backends |-> parsed.s,
                            Method |-> IF g.method = NoFlag
                                         THEN boot.cfg.Method
                                       ELSE g.method[1]]]
  /\ MainUnchanged

\* if err := cfg.Validate(); err != nil { log.Fatalf(...) }
MainValidate ==
  /\ boot.pc = "parsed"
  /\ LET e == Validate(boot.cfg)
     IN boot' = [boot EXCEPT !.pc = IF e = "nil" THEN "validated" ELSE "fatal",
                             !.validated = [of |-> "merged",
                                            cfg |-> boot.cfg, err |-> e],
                             !.err = e]
  /\ MainUnchanged

\* weight := 1; if w, found := backendWeights[url]; found { weight = w }
WeightOf(weights, u) == IF u \in DOMAIN weights THEN weights[u] ELSE 1

\* switch method { case "roundrobin": ... default: return nil, error }
NewBalancerLenient(m) ==
  IF m \in {"roundrobin", "RoundRobin"} THEN [bal |-> "roundrobin", err |-> "nil"]
  ELSE IF m \in {"leastconn", "LeastConn"} THEN [bal |-> "leastconn", err |-> "nil"]
  ELSE IF m \in {"weighted", "Weighted"} THEN [bal |-> "weighted", err |-> "nil"]
  ELSE [bal |-> "none", err |-> "Invalid balancer method"]
NewBalancer(m) ==
  IF m = "roundrobin" THEN [bal |-> "roundrobin", err |-> "nil"]
  ELSE IF m = "leastconn" THEN [bal |-> "leastconn", err |-> "nil"]
  ELSE IF m = "weighted" THEN [bal |-> "weighted", err |-> "nil"]
  ELSE [bal |-> "none", err |-> "Invalid balancer method"]

\* The backends are built in the order of cfg.Backends and handed to
\* NewBalancer.
MainBuild ==
  /\ boot.pc = "validated"
  /\ LET made == NewBalancer(boot.cfg.Method)
     IN boot' = [boot EXCEPT
                   !.pc = IF made.err = "nil" THEN "built" ELSE "fatal",
                   !.backends = [i \in 1..Len(boot.cfg.Backends) |->
                                   [url |-> boot.cfg.Backends[i],
                                    weight |-> WeightOf(boot.weights,
                                                        boot.cfg.Backends[i])]],
                   !.bal = made.bal,
                   !.err = made.err]
  /\ MainUnchanged

NextMain ==
  \/ MainLoad
  \/ MainParseFlags
  \/ MainValidate
  \/ MainBuild

SpecMain == InitMain /\ [][NextMain]_vars

\* What Validate was last called on, and what it returned.
Checked == boot.validated.cfg
Verdict == boot.validated.err

NoBackendsGiven(c) == Len(c.Backends) = 0
MethodUnsupported(c) ==
  c.Method \notin {"roundrobin", "leastconn", "weighted"}
PortOutOfRange(c) == c.Port < 1 \/ c.Port > 65535

\* C26: Validate returns an error exactly when the backend list is empty, or
\* the method is not roundrobin/leastconn/weighted, or the port is outside
\* 1..65535; of several failing conditions the first in the order backends,
\* method, port is the one reported; the config is left as it was.
C26_ValidateVerdict ==
  boot.validated.of # "none" =>
    /\ Verdict # "nil" <=> \/ NoBackendsGiven(Checked)
                           \/ MethodUnsupported(Checked)
                           \/ PortOutOfRange(Checked)
    /\ NoBackendsGiven(Checked)
         => Verdict = "at least one backend must be specified"
    /\ (~NoBackendsGiven(Checked) /\ MethodUnsupported(Checked))
         => Verdict = "unsupported load balancing method"
    /\ (/\ ~NoBackendsGiven(Checked)
        /\ ~MethodUnsupported(Checked)
        /\ PortOutOfRange(Checked))
         => Verdict = "invalid port"
    /\ (\/ boot.validated.of = "merged"
        \/ boot.pc = "loaded"
        \/ boot.pc = "fatal" /\ Verdict # "nil")
         => boot.cfg = Checked

\* A config failing two checks at once went through Validate.
C26_Witness ==
  /\ boot.validated.of = "merged"
  /\ NoBackendsGiven(Checked)
  /\ PortOutOfRange(Checked)
  /\ Verdict = "at least one backend must be specified"

\* The URLs the -backend flags name, in command-line order.
FlagURLs(g) == SetAll(<<>>, g.backend).s

FlagsParsed == boot.pc \in {"parsed", "validated", "built"}

\* C27: with a configuration file found and flags given, every value a flag
\* supplies replaces the file's value - the backend list is exactly the list
\* of the -backend flags - and a backend's weight is the file's weight for its
\* URL, or 1 when that is missing or not positive.
C27_FlagsReplaceFileValues ==
  (boot.file.found /\ FlagsParsed) =>
    /\ boot.flags.port # NoFlag => boot.cfg.Port = boot.flags.port[1]
    /\ boot.flags.method # NoFlag => boot.cfg.Method = boot.flags.method[1]
    /\ boot.flags.backend # <<>> => boot.cfg.Backends = FlagURLs(boot.flags)
    /\ boot.pc = "built" =>
         \A i \in 1..Len(boot.backends) :
           LET entries == {j \in 1..Len(boot.file.backends) :
                             boot.file.backends[j].url = boot.backends[i].url}
           IN boot.backends[i].weight =
                IF entries = {} THEN 1
                ELSE LET w == boot.file.backends[
                                CHOOSE j \in entries :
                                  \A k \in entries : k <= j].weight
                     IN IF w <= 0 THEN 1 ELSE w

\* ------------------------------------------------------ balancer factory
\* NewBalancer called directly with any method string, and the selector it
\* returned put to use.
MethodStrings ==
  {"roundrobin", "leastconn", "weighted", "RoundRobin", "Weighted",
   "unknown", ""}

IdleFactory(m, n) ==
  [pc |-> "factory", asked |-> m, given |-> n, err |-> "nil"]

InitFactory ==
  /\ nBackends \in 0..MaxBackends
  /\ method = "none"
  /\ healthy \in [Backends -> BOOLEAN]
  /\ connections = [b \in Backends |-> 0]
  /\ index = 0
  /\ now = 0
  /\ responseTimes = [b \in Backends |-> NewTracker]
  /\ rng \in 0..(RngMod - 1)
  /\ invalidURL = {}
  /\ proc = [p \in Procs |-> IdleProc]
  /\ during = [p \in Procs |-> IdleDuring]
  /\ floor = [p \in Procs |-> 0]
  /\ startIndex = [p \in Procs |-> 0]
  /\ observed = <<>>
  /\ maxReturned = 0
  /\ history = <<>>
  /\ calls = 0
  /\ lastOp = [op |-> "none", b |-> NoBackend, before |-> 0]
  /\ scanLog = [p \in Procs |-> IdleScan]
  /\ hc = IdleHC
  /\ origin = [b \in Backends |-> "up"]
  /\ probeLog = IdleProbeLog
  /\ twin = IdleTwin
  /\ trackLog = IdleTrackLog
  /\ stream = IdleStream
  /\ request = IdleRequest
  /\ rw = IdleRW
  /\ \E m \in MethodStrings : boot = IdleFactory(m, nBackends)

\* balancer, err := NewBalancer(method, backends)
FactoryBuild ==
  /\ boot.pc = "factory"
  /\ LET made == NewBalancer(boot.asked)
     IN /\ method' = made.bal
        /\ boot' = [boot EXCEPT !.pc = "built", !.err = made.err]
  /\ UNCHANGED <<nBackends, healthy, connections, index, responseTimes, rng,
                 now, invalidURL, proc, during, floor, startIndex, observed,
                 maxReturned, history, calls, lastOp, scanLog, hc, origin,
                 probeLog, twin, trackLog, stream,
                 request, rw>>

\* A selector that was returned is called; with an error there is none.
FactoryStep(A) ==
  /\ boot.pc = "built"
  /\ boot.err = "nil"
  /\ Step(A)

NextFactory ==
  \/ FactoryBuild
  \/ FactoryStep(CallNextBackend(Caller))
  \/ FactoryStep(RRNextBackend(Caller))
  \/ FactoryStep(RRAdd(Caller))
  \/ FactoryStep(RRCheck(Caller))
  \/ FactoryStep(LCNextBackend(Caller))
  \/ FactoryStep(LCScan(Caller))
  \/ FactoryStep(LCReturn(Caller))
  \/ FactoryStep(WNextBackend(Caller))
  \/ FactoryStep(WCollect(Caller))
  \/ FactoryStep(WSelect(Caller))

SpecFactory == InitFactory /\ [][NextFactory]_vars

\* C24: NewBalancer returns a round-robin, least-connections or weighted
\* selector over the given backends for exactly the strings "roundrobin",
\* "leastconn" and "weighted", and an error and no selector for every other
\* string.
C24_FactoryByExactName ==
  boot.pc = "built" =>
    /\ boot.asked \in {"roundrobin", "leastconn", "weighted"}
         => /\ boot.err = "nil"
            /\ method = boot.asked
            /\ nBackends = boot.given
    /\ boot.asked \notin {"roundrobin", "leastconn", "weighted"}
         => /\ boot.err # "nil"
            /\ method = "none"
            /\ proc[Caller].pc = "idle"
    /\ proc[Caller].pc \in {"rr_add", "rr_check"} => boot.asked = "roundrobin"
    /\ proc[Caller].pc \in {"lc_scan", "lc_ret"} => boot.asked = "leastconn"
    /\ proc[Caller].pc \in {"w_scan", "w_select"} => boot.asked = "weighted"

\* A selector made for "weighted" has answered a call with a backend.
C24_Witness ==
  /\ boot.pc = "built"
  /\ boot.asked = "weighted"
  /\ proc[Caller].pc = "returned"
  /\ proc[Caller].result # NoBackend

\* ------------------------------------------------- forwarding the body
\* One exchange followed through the handler: the origin's response has a
\* Content-Type header and a body of lines, the client's writer may or may
\* not be an http.Flusher, and the client may go away during a write.

\* bufio.Scanner gives up with ErrTooLong on a line of MaxScanTokenSize
\* bytes or more (bufio.MaxScanTokenSize = 64 * 1024).
MaxScanTokenSize == 65536

\* A Content-Type value is the media type followed by its parameters; no
\* header at all reads as the empty value.
ContentTypes ==
  {<<>>, <<"text/plain">>, <<"text/plain", "; charset=utf-8">>,
   <<"application/json">>}

BodyLines ==
  {[text |-> "first", bytes |-> 5], [text |-> "second", bytes |-> 6],
   [text |-> "longest", bytes |-> MaxScanTokenSize - 1],
   [text |-> "too long", bytes |-> MaxScanTokenSize]}

\* supportsFlushing && resp.Header.Get("Content-Type") == "text/plain"
UsesStreamingPath(ct, supportsFlushing) ==
  supportsFlushing /\ ct = <<"text/plain">>

InitStream ==
  /\ nBackends = 1
  /\ method = "roundrobin"
  /\ healthy = [b \in Backends |-> NewBackendHealthy]
  /\ connections = [b \in Backends |-> 0]
  /\ index = 0
  /\ now = 0
  /\ responseTimes = [b \in Backends |-> NewTracker]
  /\ rng = 0
  /\ invalidURL = {}
  /\ proc = [p \in Procs |-> IdleProc]
  /\ during = [p \in Procs |-> IdleDuring]
  /\ floor = [p \in Procs |-> 0]
  /\ startIndex = [p \in Procs |-> 0]
  /\ observed = <<>>
  /\ maxReturned = 0
  /\ history = <<>>
  /\ calls = 0
  /\ lastOp = [op |-> "none", b |-> NoBackend, before |-> 0]
  /\ scanLog = [p \in Procs |-> IdleScan]
  /\ hc = IdleHC
  /\ origin = [b \in Backends |-> "up"]
  /\ probeLog = IdleProbeLog
  /\ twin = IdleTwin
  /\ trackLog = IdleTrackLog
  /\ boot = IdleBoot
  /\ \E ct \in ContentTypes, fl \in BOOLEAN,
        body \in SeqsUpTo(BodyLines, MaxLines) :
       stream = [IdleStream EXCEPT !.ct = ct, !.flusher = fl, !.body = body]
  /\ request = IdleRequest
  /\ rw = IdleRW

\* A step of the handler together with what it does to the exchange.
StreamStep(A, after) ==
  /\ A
  /\ stream' = after
  /\ UNCHANGED <<during, floor, startIndex, observed, maxReturned, history,
                 calls, lastOp, scanLog, probeLog, twin, trackLog, boot,
                 request, rw>>

\* The one request of the exchange arrives.
StreamArrives ==
  /\ proc[Caller].pc = "idle"
  /\ StreamStep(ServeHTTP(Caller), stream)

\* The origin answers 200; the handler picks the path for the body.
StreamResponds ==
  LET lines == UsesStreamingPath(stream.ct, stream.flusher)
  IN StreamStep(ServeDoResponds(Caller, 200, lines),
                [stream EXCEPT !.path = IF lines THEN "lines" ELSE "copy"])

NextLine == stream.body[stream.read + 1]

\* scanner.Scan() yields the next line.
Scans ==
  /\ stream.read < Len(stream.body)
  /\ NextLine.bytes < MaxScanTokenSize

\* for scanner.Scan() { fmt.Fprintln(w, scanner.Text()); flusher.Flush() }
StreamLine ==
  /\ Scans
  /\ StreamStep(ServeStreamLine(Caller),
                [stream EXCEPT
                   !.read = @ + 1,
                   !.client = Append(@, NextLine.text),
                   !.events = @ \o <<[e |-> "read", line |-> stream.read + 1],
                                     [e |-> "write", line |-> stream.read + 1],
                                     [e |-> "flush", line |-> stream.read + 1]>>])

\* Fprintln fails: removeConnection(); return.
StreamWriteFails ==
  /\ Scans
  /\ StreamStep(ServeStreamEnds(Caller, "write error"),
                [stream EXCEPT
                   !.read = @ + 1,
                   !.events = @ \o <<[e |-> "read", line |-> stream.read + 1],
                                     [e |-> "write failed",
                                      line |-> stream.read + 1]>>])

\* Scan() returns false on a line that is too long; scanner.Err() != nil.
StreamTooLong ==
  /\ stream.read < Len(stream.body)
  /\ NextLine.bytes >= MaxScanTokenSize
  /\ StreamStep(ServeStreamEnds(Caller, "read error"),
                [stream EXCEPT
                   !.events = Append(@, [e |-> "scan failed",
                                         line |-> stream.read + 1])])

\* Scan() returns false at the end of the body; scanner.Err() == nil.
StreamEOF ==
  /\ stream.read = Len(stream.body)
  /\ StreamStep(ServeStreamEnds(Caller, "eof"), stream)

\* io.Copy(w, resp.Body) hands over the whole body, or fails on the way.
StreamCopy(ok) ==
  StreamStep(ServeCopy(Caller, ok),
             [stream EXCEPT
                !.read = IF ok THEN Len(stream.body) ELSE @,
                !.client = IF ok
                             THEN [i \in 1..Len(stream.body) |->
                                     stream.body[i].text]
                             ELSE @])

NextStream ==
  \/ StreamArrives
  \/ StreamStep(RRNextBackend(Caller), stream)
  \/ StreamStep(RRAdd(Caller), stream)
  \/ StreamStep(RRCheck(Caller), stream)
  \/ StreamStep(ServeSelected(Caller), stream)
  \/ StreamStep(ServeBuild(Caller, TRUE), stream)
  \/ StreamStep(ServeDoFails(Caller), stream)
  \/ StreamStep(ServeFail(Caller), stream)
  \/ StreamResponds
  \/ StreamLine
  \/ StreamWriteFails
  \/ StreamTooLong
  \/ StreamEOF
  \/ \E ok \in BOOLEAN : StreamCopy(ok)

SpecStream == InitStream /\ [][NextStream]_vars

\* The texts of the first n lines of the origin's body.
Produced(n) == [i \in 1..n |-> stream.body[i].text]

\* What the line-by-line loop logs for n lines forwarded in full.
RECURSIVE LineByLine(_)
LineByLine(n) ==
  IF n = 0 THEN <<>>
  ELSE LineByLine(n - 1) \o <<[e |-> "read", line |-> n],
                              [e |-> "write", line |-> n],
                              [e |-> "flush", line |-> n]>>

Finished == proc[Caller].pc = "done" /\ stream.path # "none"

\* C28: the body goes line by line with flushes whenever the origin's
\* Content-Type begins with text/plain (parameters included) and the client
\* writer supports flushing, and through the plain copy otherwise.
C28_StreamingOnTextPlainPrefix ==
  stream.path # "none" =>
    (stream.path = "lines" <=>
       (/\ stream.flusher
        /\ Len(stream.ct) >= 1
        /\ stream.ct[1] = "text/plain"))

InitWrap ==
  /\ nBackends \in 1..SeqMaxBackends
  /\ method = "roundrobin"
  /\ index \in 0..(CounterMod - 1)
  /\ healthy = [b \in Backends |-> NewBackendHealthy]
  /\ connections = [b \in Backends |-> 0]
  /\ now = 0
  /\ responseTimes = [b \in Backends |-> NewTracker]
  /\ rng = 0
  /\ invalidURL = {}
  /\ proc = [p \in Procs |-> IdleProc]
  /\ during = [p \in Procs |-> IdleDuring]
  /\ floor = [p \in Procs |-> 0]
  /\ startIndex = [p \in Procs |-> 0]
  /\ observed = <<>>
  /\ maxReturned = 0
  /\ history = <<>>
  /\ calls = 0
  /\ lastOp = [op |-> "none", b |-> NoBackend, before |-> 0]
  /\ scanLog = [p \in Procs |-> IdleScan]
  /\ hc = IdleHC
  /\ origin = [b \in Backends |-> "up"]
  /\ probeLog = IdleProbeLog
  /\ twin = IdleTwin
  /\ trackLog = IdleTrackLog
  /\ boot = IdleBoot
  /\ stream = IdleStream
  /\ request = IdleRequest
  /\ rw = IdleRW

\* The caller starts a call, whatever the counter.
WrapCall ==
  /\ proc[Caller].pc = "idle"
  /\ proc' = [proc EXCEPT ![Caller] = [IdleProc EXCEPT !.pc = "enter",
                                                       !.entry = "NextBackend"]]
  /\ UNCHANGED <<nBackends, invalidURL, hc, origin, method, healthy,
                 connections, index, responseTimes, rng, now>>

NextWrap ==
  \/ Step(WrapCall)
  \/ Step(RRNextBackend(Caller))
  \/ Step(RRAdd(Caller))
  \/ Step(RRCheck(Caller))
  \/ \E b \in Backends : Step(checkBackend(b, FALSE))

SpecWrap == InitWrap /\ [][NextWrap]_vars

\* C40: for every value of the counter, those above the largest signed
\* value and the wrap to zero included, int(counter) % n lies in 0..n-1: the
\* slice access is in range and successive values step cyclically.
C40_IndexInRange ==
  /\ proc[Caller].pc # "panic"
  /\ proc[Caller].pc = "rr_check" =>
       /\ proc[Caller].idx \in 0..(nBackends - 1)
       /\ proc[Caller].idx = proc[Caller].val % nBackends

\* ------------------------------------------------ Start and Stop in turn
\* One goroutine controls the prober, as main does: it calls Start and Stop
\* one after the other, so while it is inside Stop it calls nothing else.
ControllerStart ==
  /\ hc.stop # "calling"
  /\ HCStart

\* A further hc.Stop() after one that has returned.
HCStopAgain ==
  /\ hc.stop = "returned"
  /\ hc' = [hc EXCEPT !.stop = "calling"]
  /\ UNCHANGED <<nBackends, invalidURL, origin, method, healthy,
                 connections, index, responseTimes, rng, now, proc>>

NextStop ==
  \/ Step(ControllerStart)
  \/ Step(HCTick)
  \/ \E b \in Backends : \E r \in hc.probes[b], x \in ProbeOutcomes :
       LoggedCheckBackend(b, r, x)
  \/ Step(HCStopCall)
  \/ Step(HCStopAgain)
  \/ Step(HCStopReceive)
  \/ \E b \in Backends : Step(OriginFlips(b))
  \/ Step(Advance)

\* The running loop goroutine is scheduled.
SpecStop ==
  InitProberStop /\ [][NextStop]_vars /\ WF_vars(Step(HCStopReceive))

\* C39: Stop completes only by handing its value to the running loop: a Stop
\* made while the loop runs returns when the loop receives it, and a Stop
\* made with no loop receiving - before Start, or again after the loop has
\* ended - stays blocked for good.
C39_StopNeedsReceivingLoop ==
  /\ [][(hc'.stop = "returned" /\ hc.stop # "returned")
          => /\ hc.stop = "calling"
             /\ hc.loop = "on"
             /\ hc'.loop = "stopped"]_vars
  /\ [][(hc.stop = "calling" /\ hc.loop # "on")
          => (hc'.stop = "calling" /\ hc'.loop = hc.loop)]_vars
  /\ ((hc.stop = "calling" /\ hc.loop = "on") ~> hc.stop = "returned")

\* A second Stop, made after the loop has ended, is waiting.
C39_Witness ==
  /\ hc.stop = "calling"
  /\ hc.loop = "stopped"

\* --------------------------------------------- the tracker table in use
\* Response times are recorded next to calls of the Backend methods:
\* records are told apart by what they are, not by their URL, and the first
\* two carry the same URL.
InitKeyed ==
  /\ nBackends \in 1..(MaxTracked + 1)
  /\ InitCommon
  /\ method = "weighted"
  /\ rng = 0

\* w.SetSeed(seed)
ApiSetSeed(seed) ==
  /\ rng' = NewSource(rng, seed)
  /\ trackLog' = [op |-> "SetSeed", b |-> NoBackend, d |-> 0, avg |-> 0]
  /\ UNCHANGED <<nBackends, method, healthy, connections, index,
                 responseTimes, now, invalidURL, proc, during, floor,
                 startIndex, observed, maxReturned, history, calls, lastOp,
                 scanLog, hc, origin, probeLog, twin, boot, stream,
                 request, rw>>

\* A first request is reserved on b.
KeyedAddConnections(b) ==
  /\ b \in Backends
  /\ connections[b] = 0
  /\ ApiAddConnections(b)

NextKeyed ==
  \/ \E b \in Backends \cup {Stranger}, d \in Durations \ {0} :
       ApiRecordResponseTime(b, d)
  \/ \E b \in Backends, v \in BOOLEAN : BackendStep(ApiSetHealth(b, v))
  \/ \E b \in Backends : BackendStep(KeyedAddConnections(b))

SpecKeyed == InitKeyed /\ [][NextKeyed]_vars

\* Every operation of the weighted selector, in any order.
NextTable ==
  \/ \E b \in Backends \cup {Stranger}, d \in Durations \ {0} :
       ApiRecordResponseTime(b, d)
  \/ ApiResetStats
  \/ \E seed \in Seeds : ApiSetSeed(seed)
  \/ Step(CallNextBackend(Caller))
  \/ Step(WNextBackend(Caller))
  \/ Step(WCollect(Caller))
  \/ Step(WSelect(Caller))

SpecTable == InitTracker /\ [][NextTable]_vars

\* The tracker call of the step just taken, if it was one.
TrackerCall(op) ==
  /\ trackLog'.op = op
  /\ trackLog' # trackLog \/ responseTimes' # responseTimes

\* C32: RecordResponseTime on one record leaves total, count and computed
\* weight of every other record as they were, a record with the same URL
\* included; SetHealth and AddConnections change the record they are called
\* on and no other.
C32_KeyedByIdentity ==
  /\ [][TrackerCall("RecordResponseTime")
          => \A x \in DOMAIN responseTimes \ {trackLog'.b} :
               /\ responseTimes'[x] = responseTimes[x]
               /\ calculateWeightAt(responseTimes'[x], now')
                    = calculateWeightAt(responseTimes[x], now)]_vars
  /\ [][\A b \in Backends :
          /\ healthy'[b] # healthy[b]
               => lastOp'.op = "SetHealth" /\ lastOp'.b = b
          /\ connections'[b] # connections[b]
               => lastOp'.op = "AddConnections" /\ lastOp'.b = b]_vars

\* Two records with the same URL hold different statistics, and the two
\* listed ones differ in health and in-flight count.
C32_Witness ==
  /\ nBackends = 2
  /\ URLOf(0) = URLOf(1)
  /\ responseTimes[0].requestCount = 2
  /\ responseTimes[1].requestCount = 0
  /\ healthy[0] /\ ~healthy[1]
  /\ connections[0] = 0 /\ connections[1] = 1

\* C33: every backend of the selector's list has a tracker entry in every
\* reachable state, no step removes a key, and ResetStats leaves every key
\* in place with count 0 and total 0.
C33_TrackersNeverRemoved ==
  /\ [](\A b \in Backends : b \in DOMAIN responseTimes)
  /\ [][\A x \in DOMAIN responseTimes : x \in DOMAIN responseTimes']_vars
  /\ [][TrackerCall("ResetStats")
          => /\ DOMAIN responseTimes' = DOMAIN responseTimes
             /\ \A x \in DOMAIN responseTimes' :
                  /\ responseTimes'[x].requestCount = 0
                  /\ responseTimes'[x].totalTime = 0]_vars

\* Statistics were reset with a sampled entry for a record outside the list
\* in the table, and a selection was made afterwards.
C33_Witness ==
  /\ trackLog.op = "ResetStats"
  /\ Stranger \in DOMAIN responseTimes
  /\ proc[Caller].pc = "returned"
  /\ proc[Caller].result # NoBackend

\* ------------------------------------------- selecting, then reserving
\* C35: selection and reservation are separate steps: the step in which
\* NextBackend returns reserves nothing, and the later reservation is made
\* on the backend that was returned, whatever the counts have become by
\* then.  So two requests can both select a backend they saw at the minimum
\* and both reserve it, the second on a count above another healthy
\* backend's.
C35_SelectThenReserve ==
  [][\A p \in Procs :
       /\ (proc[p].pc # "serve_selected" /\ proc'[p].pc = "serve_selected")
            => connections' = connections
       /\ (proc[p].pc = "serve_selected" /\ proc'[p].pc = "serve_build")
            => /\ connections'
                    = AddConnections(connections, proc[p].result)
               /\ proc'[p].backend = proc[p].result]_vars

\* Both requests read b and c healthy with nothing in flight and selected b;
\* the first has reserved it, and the second is about to reserve it although
\* the healthy c still has nothing in flight.
C35_Witness ==
  \E p, q \in Procs : \E b, c \in Backends :
    /\ p # q /\ b # c
    /\ proc[p].pc = "serve_build" /\ proc[p].backend = b
    /\ proc[q].pc = "serve_selected" /\ proc[q].result = b
    /\ \A i \in 1..Len(scanLog[q].reads) :
         scanLog[q].reads[i].healthy /\ scanLog[q].reads[i].conn = 0
    /\ Len(scanLog[q].reads) = nBackends
    /\ healthy[c]
    /\ connections[b] = 1
    /\ connections[c] = 0

\* ---------------------------------------------- what a selection writes
\* C38: no step of a NextBackend call changes a backend's health or
\* in-flight count or a tracker's total, count or last update; a selection
\* writes the round-robin counter or the weighted selector's random source
\* and nothing else of the shared state.
C38_SelectionWritesOnlyItsCursor ==
  [][(\E p \in Procs : StepOf(p))
       => /\ healthy' = healthy
          /\ connections' = connections
          /\ responseTimes' = responseTimes
          /\ index' # index => method = "roundrobin"
          /\ rng' # rng => method = "weighted"]_vars

\* A weighted selection has drawn from the random source and returned a
\* backend while another backend was unhealthy.
C38_Witness ==
  \E p \in Procs :
    /\ method = "weighted"
    /\ proc[p].pc = "returned"
    /\ proc[p].result # NoBackend
    /\ \E b \in Backends : ~healthy[b]

\* ------------------------------------------------- one status per request
\* The status a request that ended through exit e was answered with; r.resp
\* is the status the origin sent.
StatusOf(r) ==
  IF r.exit = "503" THEN 503
  ELSE IF r.exit \in {"500 url", "500 build"} THEN 500
  ELSE IF r.exit = "502" THEN 502
  ELSE r.resp

\* C37: every ServeHTTP invocation that returns has emitted exactly one
\* status - 503, 500, 502 or the origin's own - and once a status is out no
\* later step of the invocation, a failing body copy included, emits
\* another.
C37_ExactlyOneStatus ==
  /\ [](\A p \in Procs :
          /\ proc[p].writes <= 1
          /\ (proc[p].pc = "done" /\ proc[p].exit # "panic")
               => /\ proc[p].writes = 1
                  /\ proc[p].status = StatusOf(proc[p])
                  /\ proc[p].status \in {503, 500, 502} \cup OriginStatuses)
  /\ [][\A p \in Procs :
          (proc[p].writes = 1 /\ proc'[p].pc # "enter")
            => /\ proc'[p].writes = 1
               /\ proc'[p].status = proc[p].status]_vars

\* The origin's 200 was forwarded and the body copy failed afterwards: the
\* request ended with that one status.
C37_Witness ==
  \E p \in Procs :
    /\ proc[p].pc = "done"
    /\ proc[p].exit = "copy error"
    /\ proc[p].status = 200
    /\ proc[p].writes = 1

\* ------------------------------------------------- the outbound request
MaxPathLen == 2
MaxQueryLen == 2

\* Characters of a decoded path and of a raw query.  The server parses the
\* request target with url.ParseRequestURI, which splits off no fragment, so
\* a '#' the client sent stays in r.URL.Path or r.URL.RawQuery.
PathChars == {"/", "a", "#"}
QueryChars == {"a", "#"}
RequestMethods == {"GET", "POST"}
HeaderNames == {"Accept", "X-Id"}
HeaderValues == {<<>>, <<"1">>, <<"1", "2">>}

\* r.URL.Path of a request in origin form begins with '/'.
InboundPaths == {<<"/">> \o t : t \in SeqsUpTo(PathChars, MaxPathLen)}
InboundQueries == SeqsUpTo(QueryChars, MaxQueryLen)

\* url.Parse(backend.URL) of the configured backends: one with a bare
\* authority, one with a base path and a query of its own.
TargetURLs ==
  {[NoURL EXCEPT !.scheme = "http", !.host = "a:8081"],
   [NoURL EXCEPT !.scheme = "https", !.host = "b", !.path = <<"/", "v">>,
                 !.rawQuery = <<"k">>]}

\* The first position of c in s, 0 when s does not hold it.
IndexByte(s, c) ==
  LET I == {i \in 1..Len(s) : s[i] = c} IN
    IF I = {} THEN 0 ELSE CHOOSE i \in I : \A j \in I : i <= j

\* escape(s, encodePath): '#' is written as %23, '/' and letters as they are.
RECURSIVE escape(_)
escape(s) ==
  IF s = <<>> THEN <<>>
  ELSE (IF Head(s) = "#" THEN <<"%", "2", "3">> ELSE <<Head(s)>>)
         \o escape(Tail(s))

\* unescape(s, encodePath): %23 is read back as '#'.
RECURSIVE unescape(_)
unescape(s) ==
  IF s = <<>> THEN <<>>
  ELSE IF Len(s) >= 3 /\ SubSeq(s, 1, 3) = <<"%", "2", "3">>
    THEN <<"#">> \o unescape(SubSeq(s, 4, Len(s)))
    ELSE <<Head(s)>> \o unescape(Tail(s))

\* dest.String(): scheme://host, the escaped path, '?' and the raw query as
\* it is when there is one, '#' and the escaped fragment when there is one.
URLString(u) ==
  <<u.scheme, "://", u.host>> \o escape(u.path)
    \o (IF u.rawQuery # <<>> THEN <<"?">> \o u.rawQuery ELSE <<>>)
    \o (IF u.fragment # <<>> THEN <<"#">> \o escape(u.fragment) ELSE <<>>)

\* url.Parse, which http.NewRequest applies to its url argument: the text
\* after the first '#' is the fragment; of the rest, the text after the
\* first '?' is the raw query and the text before it, unescaped, the path.
URLParse(s) ==
  LET h == IndexByte(s, "#")
      u == IF h = 0 THEN s ELSE SubSeq(s, 1, h - 1)
      frag == IF h = 0 THEN <<>> ELSE SubSeq(s, h + 1, Len(s))
      rest == SubSeq(u, 4, Len(u))
      q == IndexByte(rest, "?")
  IN [scheme |-> u[1], host |-> u[3],
      path |-> unescape(IF q = 0 THEN rest ELSE SubSeq(rest, 1, q - 1)),
      rawQuery |-> IF q = 0 THEN <<>> ELSE SubSeq(rest, q + 1, Len(rest)),
      fragment |-> unescape(frag)]

\* http.NewRequest(method, url, body): the request has the parsed url and a
\* header map of its own, which the handler replaces next.
NewRequest(m, url) == [method |-> m, url |-> URLParse(url), header |-> 0]

\* The handler has selected a backend and parsed its URL; the inbound request
\* r is any the server can hand it.
InitOutbound ==
  /\ nBackends = 1
  /\ method = "roundrobin"
  /\ healthy = [b \in Backends |-> NewBackendHealthy]
  /\ connections = [b \in Backends |-> 0]
  /\ index = 0
  /\ now = 0
  /\ responseTimes = [b \in Backends |-> NewTracker]
  /\ rng = 0
  /\ invalidURL = {}
  /\ proc = [p \in Procs |-> IdleProc]
  /\ during = [p \in Procs |-> IdleDuring]
  /\ floor = [p \in Procs |-> 0]
  /\ startIndex = [p \in Procs |-> 0]
  /\ observed = [p \in Procs |-> {}]
  /\ maxReturned = 0
  /\ history = <<>>
  /\ calls = 0
  /\ lastOp = [op |-> "none", b |-> NoBackend, before |-> 0]
  /\ scanLog = [p \in Procs |-> IdleScan]
  /\ hc = IdleHC
  /\ origin = [b \in Backends |-> "up"]
  /\ probeLog = IdleProbeLog
  /\ twin = IdleTwin
  /\ trackLog = IdleTrackLog
  /\ boot = IdleBoot
  /\ stream = IdleStream
  /\ rw = IdleRW
  /\ \E t \in TargetURLs, m \in RequestMethods, path \in InboundPaths,
        query \in InboundQueries, h \in [HeaderNames -> {<<>>, <<"1">>}] :
       request = [IdleRequest EXCEPT
                    !.pc = "selected", !.targetURL = t,
                    !.r = [method |-> m,
                           url |-> [NoURL EXCEPT !.path = path,
                                                 !.rawQuery = query],
                           header |-> 1],
                    !.heap = <<h>>, !.received = h]

OutboundUnchanged ==
  UNCHANGED <<nBackends, method, healthy, connections, index, responseTimes,
              rng, now, invalidURL, proc, during, floor, startIndex, observed,
              maxReturned, history, calls, lastOp, scanLog, hc, origin,
              probeLog, twin, trackLog, boot, stream, rw>>

\* dest := *targetURL; dest.Path = r.URL.Path; dest.RawQuery = r.URL.RawQuery
\* proxyReq, err := http.NewRequest(r.Method, dest.String(), r.Body)
\* proxyReq.Header = r.Header.Clone()
OutboundBuild ==
  /\ request.pc = "selected"
  /\ LET dest == [request.targetURL EXCEPT !.path = request.r.url.path,
                                          !.rawQuery = request.r.url.rawQuery]
         proxyReq == NewRequest(request.r.method, URLString(dest))
         clone == request.heap[request.r.header]
     IN request' = [request EXCEPT
                      !.pc = "built",
                      !.heap = Append(@, clone),
                      !.proxyReq = [proxyReq EXCEPT
                                      !.header = Len(request.heap) + 1]]
  /\ OutboundUnchanged

\* Code downstream of the handler (the client's transport) sets, extends or
\* deletes a header of the outbound request.
OutboundHeaderSet(name, values) ==
  /\ request.pc = "built"
  /\ request' = [request EXCEPT
                   !.heap[request.proxyReq.header][name] = values,
                   !.mutated = TRUE]
  /\ OutboundUnchanged

NextOutbound ==
  \/ OutboundBuild
  \/ \E name \in HeaderNames, values \in HeaderValues :
       OutboundHeaderSet(name, values)

SpecOutbound == InitOutbound /\ [][NextOutbound]_vars

\* C34: the outbound request has the inbound method, path and raw query
\* unchanged, the scheme and the host of the selected backend's URL, and a
\* header map of its own: writes to the outbound headers leave the inbound
\* request's headers as they were received.
C34_OutboundRequest ==
  request.pc = "built" =>
    /\ request.proxyReq.method = request.r.method
    /\ request.proxyReq.url.path = request.r.url.path
    /\ request.proxyReq.url.rawQuery = request.r.url.rawQuery
    /\ request.proxyReq.url.scheme = request.targetURL.scheme
    /\ request.proxyReq.url.host = request.targetURL.host
    /\ request.proxyReq.header # request.r.header
    /\ request.heap[request.r.header] = request.received

\* ------------------------------------------------- recovery of a backend
\* Recovery is checked with up to MaxRecoverBackends backends.
MaxRecoverBackends == 1

\* A client of the selector makes calls and handlers mark backends down on
\* their 502 path while the prober runs and the origins start and stop
\* answering.
InitRecover ==
  /\ nBackends \in 1..MaxRecoverBackends
  /\ InitCommon
  /\ rng = 0

\* The log names the probe that ended in the step just taken, if one did.
RecoverStep(A) ==
  /\ A
  /\ ObserveHealth
  /\ probeLog' = IdleProbeLog
  /\ UNCHANGED <<floor, startIndex, observed, maxReturned, history, calls,
                 lastOp, scanLog, twin, trackLog, boot, stream, request, rw>>

RecoverProbe(b, r, x) ==
  /\ HCCheckBackend(b, r, x)
  /\ ObserveHealth
  /\ probeLog' = [probeLog EXCEPT
                    !.last = [b |-> b, err |-> x.err, status |-> x.status,
                              seq |-> 0, stopped |-> FALSE]]
  /\ UNCHANGED <<floor, startIndex, observed, maxReturned, history, calls,
                 lastOp, scanLog, twin, trackLog, boot, stream, request, rw>>

\* case <-ticker.C: hc.checkAll(), with the passing of time left out: the
\* ticker fires again and again, and as a probe's Timeout is shorter than
\* the ticker's interval the probes of the round before have ended.
RecoverRound ==
  /\ hc.loop = "on"
  /\ \A b \in Backends : hc.probes[b] = {}
  /\ hc' = checkAll(hc)
  /\ UNCHANGED <<nBackends, invalidURL, origin, method, healthy,
                 connections, index, responseTimes, rng, now, proc>>

ProbeEnds(b) ==
  /\ b \in Backends
  /\ \E r \in hc.probes[b], x \in ProbeOutcomes : RecoverProbe(b, r, x)

NextRecover ==
  \/ RecoverStep(CallNextBackend(Caller))
  \/ RecoverStep(RRNextBackend(Caller))
  \/ RecoverStep(RRAdd(Caller))
  \/ RecoverStep(RRCheck(Caller))
  \/ RecoverStep(LCNextBackend(Caller))
  \/ RecoverStep(LCScan(Caller))
  \/ RecoverStep(LCReturn(Caller))
  \/ RecoverStep(WNextBackend(Caller))
  \/ RecoverStep(WCollect(Caller))
  \/ RecoverStep(WSelect(Caller))
  \/ \E b \in Backends : RecoverStep(HandlerMarksDown(b))
  \/ RecoverStep(HCStart)
  \/ RecoverStep(RecoverRound)
  \/ \E b \in Backends : ProbeEnds(b)
  \/ \E b \in Backends : RecoverStep(OriginFlips(b))

\* The ticker's case is taken when it has fired, and every probe's GET
\* returns, with an answer or at its Timeout.
SpecRecover ==
  /\ InitRecover
  /\ [][NextRecover]_vars
  /\ WF_vars(RecoverStep(RecoverRound))
  /\ \A b \in 0..(MaxRecoverBackends - 1) : WF_vars(ProbeEnds(b))

\* A probe of backend b has just completed.
ProbeEnded(b) ==
  Cardinality(hc'.probes[b]) < Cardinality(hc.probes[b])

\* C36: only a completed health probe with a status below 400 sets a health
\* flag to true, no step of the handler or of a selector does; a selector
\* call returns no backend that was unhealthy from the start of the call to
\* its return; and an unhealthy backend whose origin answers /health while
\* the prober runs becomes healthy again.
C36_UnhealthyUntilProbed ==
  /\ [][\A b \in Backends :
          (~healthy[b] /\ healthy'[b])
            => /\ ProbeEnded(b)
               /\ probeLog'.last.b = b
               /\ ~probeLog'.last.err
               /\ probeLog'.last.status < FailureStatus
               /\ proc' = proc]_vars
  /\ [](\A b \in Backends :
          (proc[Caller].pc = "returned" /\ proc[Caller].result = b)
            => b \in during[Caller].seenHealthy)
  /\ \A b \in 0..(MaxRecoverBackends - 1) :
       (b \in Backends /\ ~healthy[b] /\ hc.loop = "on" /\ origin[b] = "up")
         ~> (b \in Backends /\ (healthy[b] \/ origin[b] # "up"))

\* A call found the only backend unhealthy and returned the none-healthy
\* error, and a probe that got status 200 has just set it healthy again.
C36_Witness ==
  /\ nBackends = 1
  /\ proc[Caller].pc = "returned"
  /\ proc[Caller].err = "ErrNoneHealthy"
  /\ probeLog.last.b = 0
  /\ probeLog.last.status = 200
  /\ healthy[0]
  /\ hc.loop = "on"

\* ------------------------------------------- the trackers under w.mutex
\* Goroutines record response times and read trackers concurrently.  Each
\* statement of RecordResponseTime is a step of its own and its += and ++
\* are a read followed by a write.

\* w.mutex.Lock() returns when no goroutine holds the mutex.
LockFreeForAll(m) == TRUE
LockFree(m) == m.writer = 0 /\ m.readers = {}

\* w.mutex.RLock() returns when no writer holds the mutex.
RLockFree(m) == m.writer = 0

ReaderOps == {"GetWeight", "GetAverageResponseTime", "NextBackend"}

\* The backends in list order.
BackendList == [i \in 1..nBackends |-> i - 1]

InitRW ==
  /\ nBackends \in 1..MaxTracked
  /\ InitCommon
  /\ method = "weighted"
  /\ rng = 0

RWUnchanged ==
  UNCHANGED <<nBackends, method, healthy, connections, index, rng, now,
              invalidURL, proc, during, floor, startIndex, observed,
              maxReturned, history, calls, lastOp, scanLog, hc, origin,
              probeLog, twin, trackLog, boot, stream, request>>

\* RecordResponseTime(b, d): w.mutex.Lock(); defer w.mutex.Unlock()
RWRecordLock(p, b, d) ==
  /\ rw.g[p].pc = "idle"
  /\ SumSeq([i \in 1..nBackends |-> Len(rw.samples[i - 1])]) < MaxSamples
  /\ LockFree(rw)
  /\ rw' = [rw EXCEPT !.writer = p,
                      !.samples[b] = Append(@, d),
                      !.g[p] = [IdleG EXCEPT !.pc = "rec_read_total",
                                             !.op = "RecordResponseTime",
                                             !.b = b, !.d = d]]
  /\ UNCHANGED responseTimes
  /\ RWUnchanged

\* tracker.totalTime += responseTime: the read.
RWRecordReadTotal(p) ==
  /\ rw.g[p].pc = "rec_read_total"
  /\ rw' = [rw EXCEPT !.g[p].local = responseTimes[rw.g[p].b].totalTime,
                      !.g[p].pc = "rec_write_total"]
  /\ UNCHANGED responseTimes
  /\ RWUnchanged

\* tracker.totalTime += responseTime: the write.
RWRecordWriteTotal(p) ==
  /\ rw.g[p].pc = "rec_write_total"
  /\ responseTimes' = [responseTimes EXCEPT
                         ![rw.g[p].b].totalTime = rw.g[p].local + rw.g[p].d]
  /\ rw' = [rw EXCEPT !.g[p].pc = "rec_read_count"]
  /\ RWUnchanged

\* tracker.requestCount++: the read.
RWRecordReadCount(p) ==
  /\ rw.g[p].pc = "rec_read_count"
  /\ rw' = [rw EXCEPT !.g[p].local = responseTimes[rw.g[p].b].requestCount,
                      !.g[p].pc = "rec_write_count"]
  /\ UNCHANGED responseTimes
  /\ RWUnchanged

\* tracker.requestCount++: the write; tracker.lastUpdate = time.Now(); the
\* deferred w.mutex.Unlock().
RWRecordWriteCount(p) ==
  /\ rw.g[p].pc = "rec_write_count"
  /\ responseTimes' = [responseTimes EXCEPT
                         ![rw.g[p].b].requestCount = rw.g[p].local + 1,
                         ![rw.g[p].b].lastUpdate = now]
  /\ rw' = [rw EXCEPT !.writer = IF @ = p THEN 0 ELSE @,
                      !.g[p].pc = "idle"]
  /\ RWUnchanged

\* GetWeight(b), GetAverageResponseTime(b), NextBackend():
\* w.mutex.RLock(); defer w.mutex.RUnlock().  NextBackend reads the tracker
\* of every backend of the list, the other two the tracker of b.
RWReadLock(p, op, b) ==
  /\ rw.g[p].pc = "idle"
  /\ RLockFree(rw)
  /\ rw' = [rw EXCEPT !.readers = @ \cup {p},
                      !.g[p] = [IdleG EXCEPT
                                  !.pc = "read", !.op = op, !.b = b,
                                  !.todo = IF op = "NextBackend"
                                             THEN BackendList ELSE <<b>>]]
  /\ UNCHANGED responseTimes
  /\ RWUnchanged

\* The tracker's requestCount and totalTime are read (calculateWeight, or
\* the average of GetAverageResponseTime); after the last tracker the
\* deferred w.mutex.RUnlock() runs.
RWRead(p) ==
  /\ rw.g[p].pc = "read"
  /\ LET b == Head(rw.g[p].todo)
         rest == Tail(rw.g[p].todo)
     IN rw' = [rw EXCEPT
                 !.g[p].seen = [b |-> b,
                                count |-> responseTimes[b].requestCount,
                                total |-> responseTimes[b].totalTime],
                 !.g[p].todo = rest,
                 !.g[p].pc = IF rest = <<>> THEN "idle" ELSE "read",
                 !.readers = IF rest = <<>> THEN @ \ {p} ELSE @]
  /\ UNCHANGED responseTimes
  /\ RWUnchanged

NextRW ==
  \/ \E p \in Procs, b \in Backends, d \in Durations \ {0} :
       RWRecordLock(p, b, d)
  \/ \E p \in Procs : RWRecordReadTotal(p)
  \/ \E p \in Procs : RWRecordWriteTotal(p)
  \/ \E p \in Procs : RWRecordReadCount(p)
  \/ \E p \in Procs : RWRecordWriteCount(p)
  \/ \E p \in Procs, op \in ReaderOps, b \in Backends : RWReadLock(p, op, b)
  \/ \E p \in Procs : RWRead(p)

SpecRW == InitRW /\ [][NextRW]_vars

\* No RecordResponseTime call on b is under way.
Settled(b) ==
  \A p \in Procs : rw.g[p].op = "RecordResponseTime" /\ rw.g[p].b = b
                     => rw.g[p].pc = "idle"

\* C31: whenever the RecordResponseTime calls made on a backend have all
\* returned, its tracker's requestCount is the number of those calls and its
\* totalTime the sum of their durations; and what a reader under RLock sees
\* of a tracker is the count and the sum of the same samples, never a
\* totalTime that holds a sample the requestCount does not.
C31_RecordsAtomicForReaders ==
  /\ \A b \in Backends :
       Settled(b)
         => /\ responseTimes[b].requestCount = Len(rw.samples[b])
            /\ responseTimes[b].totalTime = SumSeq(rw.samples[b])
  /\ \A p \in Procs :
       LET o == rw.g[p].seen IN
         o.b # NoBackend
           => /\ o.count <= Len(rw.samples[o.b])
              /\ o.total = SumSeq(SubSeq(rw.samples[o.b], 1, o.count))

\* Two goroutines have recorded on the same backend, and the reader's view
\* taken between the two records holds one sample in both fields.
C31_Witness ==
  \E p \in Procs, b \in Backends :
    /\ Settled(b)
    /\ responseTimes[b].requestCount = 2
    /\ rw.g[p].seen = [b |-> b, count |-> 1, total |-> 3]
    /\ \E q \in Procs \ {p} : rw.g[q].op = "RecordResponseTime"

====
